---- MODULE Spec2Model ----
(***************************************************************************)
(* Verification model of the MeuFuturo backend's insight engine.          *)
(*                                                                         *)
(* Part 1, the prediction lifecycle store: AIPredictionRepository over    *)
(* BaseRepository, and the /predictions endpoints that call it.           *)
(* Part 2, the health scorer: AIService._calculate_health_score and       *)
(* utils.ai_helpers.calculate_financial_health_score.                     *)
(* Part 3, the anomaly detector and the category correlations of          *)
(* PatternAnalysisService.  Part 4, the recommendation engine,             *)
(* RecommendationService.  Part 5, the scenario simulator,                 *)
(* SimulationService.  Part 6, the prediction generator,                   *)
(* AIService.generate_predictions.  Part 7, the platform services: the     *)
(* seasonal detector, the cleanup loop and the expiry sweep on sessions    *)
(* of their own, authentication, the rate limiter and the login            *)
(* endpoint, the Budget object and MemoryCache.  Each part has its own     *)
(* specification over the shared variables.                                *)
(*                                                                         *)
(* Time is counted in whole days.  Confidence scores are in hundredths.   *)
(* The table is a bag of rows: a row made by create() carries an id the   *)
(* callers know (1, 2, ...); the rows made by bulk_create() carry uuid4   *)
(* ids that no caller keeps, so they are interchangeable and are kept as  *)
(* copies of one row with id Anon.                                         *)
(***************************************************************************)
EXTENDS Integers, FiniteSets, Sequences, Bags, TLC

VARIABLES
    db,       \* the committed ai_predictions table
    view,     \* the table as the open session's transaction sees it
    now,      \* datetime.utcnow(), in days
    nextId,   \* the next id create() hands out
    last,     \* the last operation, its arguments and what it answered
    hin,      \* health scorer: the inputs under evaluation
    evalA,    \* health scorer: the first evaluation's result
    evalB     \* health scorer: the second evaluation's result

VARIABLES
    ledger,     \* anomaly detector: the user's transactions
    anomalies,  \* anomaly detector: what the last detect_anomalies call fetched and returned
    analysed,   \* pattern analysis: the (date, category) of the expenses analysed
    correlations,  \* pattern analysis: the last _analyze_category_correlations result
    goals,      \* recommendations: the user's goals
    budgets,    \* recommendations: the user's budgets
    recommendations,  \* recommendations: the last call of the service and its outcome
    simulation,  \* simulations: the last run_simulation request and its outcome
    generated   \* predictions: the last generate_predictions request and its outcome

storeVars == <<db, view, now, nextId, last>>
healthVars == <<hin, evalA, evalB>>

anomalyVars == <<ledger, anomalies>>
correlationVars == <<analysed, correlations>>
recommendationVars == <<goals, budgets, recommendations>>
simulationVars == <<simulation>>
generationVars == <<generated>>

analyticsVars ==
    <<anomalyVars, correlationVars, recommendationVars, simulationVars, generationVars>>

\* The variables of the platform services.
VARIABLES
    history,  \* seasonal detector: the category's spend of each month so far
    patterns,  \* seasonal detector: the last detect_seasonal_patterns result
    purge,  \* cleanup loop: where a caller's loop over cleanup_old_predictions stands
    accounts,  \* authentication: the users table, by user id
    verified,  \* authentication: the users whose password a login has verified
    tokens,  \* authentication: the access tokens issued so far
    response,  \* authentication: the last request and its response
    clock,  \* rate limiter: time.time(), in seconds
    minute_requests,  \* rate limiter: requests[client + '_minute'], by client
    hour_requests,  \* rate limiter: requests[client + '_hour'], by client
    burst_requests,  \* rate limiter: burst_requests[client], by client
    verdict,  \* rate limiter: the last is_allowed call, its logs before and its result
    admitted,  \* login endpoint: the times of each client's requests the endpoint let through
    sweep,  \* expiry sweep: where a running archive_expired_predictions stands on its own session
    budget,  \* budget: one Budget object, its amounts and status, and the last method called on it
    cache,  \* memory cache: MemoryCache.cache, the expiry time of each cached key
    access_order,  \* memory cache: MemoryCache.access_order
    recency,  \* memory cache: the rank of each cached key by its last set or hit, 1 the oldest
    cache_time,  \* memory cache: time.time()
    outcome  \* memory cache: the last call and what it evicted

seasonalVars == <<history, patterns>>
purgeVars == <<purge>>
authVars == <<accounts, verified, tokens, response>>
limiterVars == <<clock, minute_requests, hour_requests, burst_requests, verdict, admitted>>
sweepVars == <<sweep>>
budgetVars == <<budget>>
cacheVars == <<cache, access_order, recency, cache_time, outcome>>

platformVars ==
    <<seasonalVars,
      purgeVars,
      authVars,
      limiterVars,
      sweepVars,
      budgetVars,
      cacheVars>>

\* What each platform service leaves alone.
exceptSeasonal ==
    <<storeVars, healthVars, analyticsVars, purgeVars, authVars, limiterVars,
      sweepVars, budgetVars, cacheVars>>
exceptPurge ==
    <<storeVars, healthVars, analyticsVars, seasonalVars, authVars,
      limiterVars, sweepVars, budgetVars, cacheVars>>
exceptAuth ==
    <<storeVars, healthVars, analyticsVars, seasonalVars, purgeVars,
      limiterVars, sweepVars, budgetVars, cacheVars>>
exceptLimiter ==
    <<storeVars, healthVars, analyticsVars, seasonalVars, purgeVars,
      authVars, sweepVars, budgetVars, cacheVars>>
exceptSweep ==
    <<storeVars, healthVars, analyticsVars, seasonalVars, purgeVars,
      authVars, limiterVars, budgetVars, cacheVars>>
exceptBudget ==
    <<storeVars, healthVars, analyticsVars, seasonalVars, purgeVars,
      authVars, limiterVars, sweepVars, cacheVars>>
exceptCache ==
    <<storeVars, healthVars, analyticsVars, seasonalVars, purgeVars,
      authVars, limiterVars, sweepVars, budgetVars>>
besidePurge == <<healthVars, analyticsVars, seasonalVars, authVars, limiterVars, sweepVars, budgetVars, cacheVars>>
besideSweep == <<healthVars, analyticsVars, seasonalVars, purgeVars, authVars, limiterVars, budgetVars, cacheVars>>
exceptAuthLimiter ==
    <<storeVars, healthVars, analyticsVars,
      seasonalVars, purgeVars, sweepVars, budgetVars, cacheVars>>

\* End of the declarations.

\* The variables of the services, which the store and the health scorer
\* never touch.
engineVars == <<analyticsVars, platformVars>>

vars == <<storeVars, healthVars, engineVars>>

\* What each analytics service leaves alone.
exceptAnomaly ==
    <<storeVars, healthVars, correlationVars, recommendationVars, simulationVars,
      generationVars, platformVars>>
exceptCorrelation ==
    <<storeVars, healthVars, anomalyVars, recommendationVars, simulationVars,
      generationVars, platformVars>>
exceptRecommendation ==
    <<storeVars, healthVars, anomalyVars, correlationVars, simulationVars,
      generationVars, platformVars>>
exceptSimulation ==
    <<storeVars, healthVars, anomalyVars, correlationVars, recommendationVars,
      generationVars, platformVars>>

----------------------------------------------------------------------------
\* Bounds of the model.

MaxSingle == 1
MaxTx == 3
MaxCorrDays == 4
MaxGoals == 1
MaxBudgets == 1

----------------------------------------------------------------------------
\* Program constants.

ExpiredLimit == 100
CleanupBatchSize == 100
HighConfidenceThreshold == 70
HighConfidenceLimit == 10
CleanupMinDays == 30

\* One row more than a sweep reads; one day more than the shortest retention.
BulkRows == ExpiredLimit + 1
TickDays == CleanupMinDays + 1
MaxRows == BulkRows + 1

\* The moments the clock is read at: the day the service starts, and the first
\* day on which a row made at the start is past the shortest retention.
Days == {0, TickDays}

----------------------------------------------------------------------------
\* Data.

Users == {"u1", "u2"}
NoUser == "none"
Anon == 0
NoExpiry == {}

PredictionStatus == {"active", "archived", "dismissed"}

\* (type, confidence_score) as AIService creates them.
Templates == {<<"savings_projection", 30>>, <<"financial_health", 80>>}
PredictionTypes == {tp[1] : tp \in Templates}

ExpiryOffsets == {-1, 0, 1}
ExpiryChoices(t) == {NoExpiry} \cup {{t + d} : d \in ExpiryOffsets}

DaysOldChoices == {30, 60}
BatchSizes == {CleanupBatchSize}

NewRow(id, u, tp, e, at) ==
    [id |-> id, user_id |-> u, type |-> tp[1], confidence_score |-> tp[2],
     status |-> "active", expires_at |-> e, created_at |-> at, updated_at |-> at]

----------------------------------------------------------------------------
\* Bag helpers.

Min(a, b) == IF a <= b THEN a ELSE b
Max(a, b) == IF a >= b THEN a ELSE b

\* The rows of B that are in the set S, each as often as B holds it.
Filter(B, S) == [r \in S \cap DOMAIN B |-> B[r]]

\* The sub-bags of G that hold exactly m rows.
RECURSIVE SubBagsOfSize(_, _)
SubBagsOfSize(G, m) ==
    IF m = 0 THEN {EmptyBag}
    ELSE IF DOMAIN G = {} THEN {}
    ELSE LET r == CHOOSE x \in DOMAIN G : TRUE
             rest == [x \in DOMAIN G \ {r} |-> G[x]]
             restN == BagCardinality(rest)
         IN  UNION {{(IF j = 0 THEN EmptyBag ELSE (r :> j)) @@ T :
                        T \in SubBagsOfSize(rest, m - j)} :
                    j \in {i \in 0 .. Min(G[r], m) : m - i <= restN}}

ExpiryOf(r) == CHOOSE x \in r.expires_at : TRUE

\* The ORDER BY clauses of the queries; a query without one leaves the order
\* of its rows to the database.
ByExpiry(q, r) == ExpiryOf(q) < ExpiryOf(r)
ByConfidenceDesc(q, r) == q.confidence_score > r.confidence_score
ByCreatedDesc(q, r) == q.created_at > r.created_at
ByDateDesc(q, r) == q.transaction_date > r.transaction_date
Unordered(q, r) == FALSE

SortsBefore(order, q, r) ==
    CASE order = "expires_at" -> ByExpiry(q, r)
      [] order = "confidence_score desc" -> ByConfidenceDesc(q, r)
      [] order = "created_at desc" -> ByCreatedDesc(q, r)
      [] order = "transaction_date desc" -> ByDateDesc(q, r)
      [] OTHER -> Unordered(q, r)

\* The outcomes of ORDER BY order LIMIT k over the rows B: every choice of k
\* rows that leaves out no row sorting strictly before a chosen one.
TakeOrdered(B, k, order) ==
    IF BagCardinality(B) <= k THEN {B}
    ELSE {S \in SubBagsOfSize(B, k) :
            \A r \in DOMAIN S : \A q \in DOMAIN (B (-) S) : ~SortsBefore(order, q, r)}

RowById(B, id) == {r \in DOMAIN B : r.id = id}

\* The status of row id before a call, kept with the call's answer.
StatusOf(B, id) ==
    IF RowById(B, id) = {} THEN "missing" ELSE (CHOOSE r \in RowById(B, id) : TRUE).status

----------------------------------------------------------------------------
\* Row predicates, as the queries' WHERE clauses state them.

ExpiresAfter(r, t) == \E x \in r.expires_at : x > t
ExpiresAtOrBefore(r, t) == \E x \in r.expires_at : x <= t
IsStale(r, t) == r.status = "active" /\ \E x \in r.expires_at : x < t

SetStatus(r, s, t) == [r EXCEPT !.status = s, !.updated_at = t]

----------------------------------------------------------------------------
\* BaseRepository.

\* UPDATE ... SET status = s WHERE id = id; updated_at follows by onupdate.
UpdateById(B, id, s, t) ==
    BagOfAll(LAMBDA r : IF r.id = id THEN SetStatus(r, s, t) ELSE r, B)

\* bulk_update of the rows in S (a sub-bag of B), one UPDATE per row.
BulkUpdate(B, S, s, t) ==
    (B (-) S) (+) BagOfAll(LAMBDA r : SetStatus(r, s, t), S)

\* bulk_delete of the rows in S: DELETE ... WHERE id IN (ids).
BulkDelete(B, S) == B (-) S

----------------------------------------------------------------------------
\* AIPredictionRepository: the queries.

ActiveRows(B, u, t) ==
    Filter(B, {r \in DOMAIN B : /\ r.user_id = u
                                /\ r.status = "active"
                                /\ (r.expires_at = NoExpiry \/ ExpiresAfter(r, t))})

HighConfidenceRows(B, u, threshold, t) ==
    Filter(B, {r \in DOMAIN B : /\ r.user_id = u
                                /\ r.status = "active"
                                /\ r.confidence_score >= threshold
                                /\ (r.expires_at = NoExpiry \/ ExpiresAfter(r, t))})

ExpiredRows(B, u, t) ==
    Filter(B, {r \in DOMAIN B : /\ ExpiresAtOrBefore(r, t)
                                /\ r.status = "active"
                                /\ (u # NoUser => r.user_id = u)})

LatestByTypeRows(B, u, tp) ==
    Filter(B, {r \in DOMAIN B : /\ r.user_id = u
                                /\ r.type = tp
                                /\ r.status = "active"})

\* A cleanup selection that forgets the status condition.
CleanupRowsAnyStatus(B, cutoff) ==
    Filter(B, {r \in DOMAIN B : r.created_at < cutoff})

CleanupRows(B, cutoff) ==
    Filter(B, {r \in DOMAIN B : /\ r.created_at < cutoff
                                /\ r.status \in {"archived", "dismissed"}})

GetExpiredPredictions(B, u, t) ==
    TakeOrdered(ExpiredRows(B, u, t), ExpiredLimit, "expires_at")

----------------------------------------------------------------------------
\* The state after construction: an empty table, a fresh session.

NoOp == [op |-> "none"]
NoInput == [fn |-> "none"]
NoEval == [done |-> FALSE]

StoreInit ==
    /\ db = EmptyBag
    /\ view = EmptyBag
    /\ now = 0
    /\ nextId = 1
    /\ last = NoOp

HealthIdle ==
    /\ hin = NoInput
    /\ evalA = NoEval
    /\ evalB = NoEval

\* The analytics services before their first call.
NoRun == [done |-> FALSE]

AnomalyIdle ==
    /\ ledger = {}
    /\ anomalies = NoRun

CorrelationIdle ==
    /\ analysed = {}
    /\ correlations = NoRun

RecommendationIdle ==
    /\ goals = {}
    /\ budgets = {}
    /\ recommendations = NoRun

SimulationIdle == simulation = NoRun

GenerationIdle == generated = NoRun

\* The clients the rate limiter tells apart (_get_client_identifier).
Clients == {"c1", "c2"}

\* A user as register_user creates it.
NewAccount == [is_active |-> TRUE, two_factor_enabled |-> FALSE, has_secret |-> FALSE]

\* No archive_expired_predictions call is running.
NoSweep == [pc |-> "idle", updates |-> << >>, written |-> {}]

\* No Budget object has been made yet.
NoBudget == [status |-> "none"]

\* A caller's loop over cleanup_old_predictions before it starts.
NoPurge == [phase |-> "idle", calls |-> 0]

\* The platform services before their first call.
SeasonalIdle ==
    /\ history = << >>
    /\ patterns = NoRun

PurgeIdle ==
    purge = NoPurge

AuthIdle ==
    /\ accounts = [id \in Users |-> NewAccount]
    /\ verified = {}
    /\ tokens = {}
    /\ response = NoOp

LimiterIdle ==
    /\ clock = 0
    /\ minute_requests = [c \in Clients |-> << >>]
    /\ hour_requests = [c \in Clients |-> << >>]
    /\ burst_requests = [c \in Clients |-> << >>]
    /\ verdict = NoOp
    /\ admitted = [c \in Clients |-> << >>]

SweepIdle ==
    sweep = NoSweep

BudgetIdle ==
    budget = NoBudget

CacheIdle ==
    /\ cache = << >>
    /\ access_order = << >>
    /\ recency = << >>
    /\ cache_time = 0
    /\ outcome = NoOp

PlatformIdle ==
    /\ SeasonalIdle
    /\ PurgeIdle
    /\ AuthIdle
    /\ LimiterIdle
    /\ SweepIdle
    /\ BudgetIdle
    /\ CacheIdle

\* End of the idle states.

EngineIdle ==
    /\ PlatformIdle
    /\ AnomalyIdle
    /\ CorrelationIdle
    /\ RecommendationIdle
    /\ SimulationIdle
    /\ GenerationIdle

Init == StoreInit /\ HealthIdle /\ EngineIdle

----------------------------------------------------------------------------
\* Repository operations, called on the open session.

\* BaseRepository.create: INSERT, flush, refresh, commit.
CreateUpTo(u, tp, e, max) ==
    /\ nextId <= max
    /\ BagCardinality(view) < MaxRows
    /\ view' = view (+) SetToBag({NewRow(nextId, u, tp, e, now)})
    /\ db' = view'
    /\ nextId' = nextId + 1
    /\ last' = NoOp
    /\ UNCHANGED <<now, healthVars, engineVars>>

Create(u, tp, e) == CreateUpTo(u, tp, e, MaxSingle)

\* BaseRepository.bulk_create of BulkRows equal objects: add_all, flush, commit.
BulkCreate(u, tp, e) ==
    /\ BagCardinality(view) + BulkRows <= MaxRows
    /\ view' = view (+) (NewRow(Anon, u, tp, e, now) :> BulkRows)
    /\ db' = view'
    /\ last' = NoOp
    /\ UNCHANGED <<now, nextId, healthVars, engineVars>>

\* BaseRepository.update(id, status=s): UPDATE ... RETURNING, commit when a row came back.
Update(opname, id, s) ==
    IF RowById(view, id) # {}
    THEN /\ view' = UpdateById(view, id, s, now)
         /\ db' = view'
         /\ last' = [op |-> opname, id |-> id, found |-> TRUE, was |-> StatusOf(view, id)]
         /\ UNCHANGED <<now, nextId, healthVars, engineVars>>
    ELSE /\ last' = [op |-> opname, id |-> id, found |-> FALSE, was |-> StatusOf(view, id)]
         /\ UNCHANGED <<db, view, now, nextId, healthVars, engineVars>>

\* An archive that refuses a prediction that is no longer active.
ArchivePredictionOnce(id) ==
    IF StatusOf(view, id) = "active"
    THEN Update("archive_prediction", id, "archived")
    ELSE /\ last' = [op |-> "archive_prediction", id |-> id, found |-> FALSE,
                      was |-> StatusOf(view, id)]
         /\ UNCHANGED <<db, view, now, nextId, healthVars, engineVars>>

ArchivePrediction(id) == Update("archive_prediction", id, "archived")

DismissPrediction(id) == Update("dismiss_prediction", id, "dismissed")

\* archive_expired_predictions(user_id): get_expired_predictions, then bulk_update.
ArchiveExpiredPredictions(u) ==
    \E S \in GetExpiredPredictions(view, u, now) :
        /\ view' = IF S = EmptyBag THEN view ELSE BulkUpdate(view, S, "archived", now)
        /\ last' = [op |-> "archive_expired", user |-> u, count |-> BagCardinality(S)]
        /\ UNCHANGED <<db, now, nextId, healthVars, engineVars>>

\* cleanup_old_predictions(days_old, batch_size): SELECT id ... LIMIT, then bulk_delete.
\* cleanup_old_predictions: SELECT id ... LIMIT batch_size, then bulk_delete of
\* the ids, a DELETE without a commit.
DeleteOldPredictions(days_old, batch_size) ==
    \E S \in TakeOrdered(CleanupRows(view, now - days_old), batch_size, "none") :
        /\ view' = IF S = EmptyBag THEN view ELSE BulkDelete(view, S)
        /\ last' = [op |-> "cleanup", days_old |-> days_old, batch_size |-> batch_size,
                    count |-> BagCardinality(S)]

CleanupOldPredictions(days_old, batch_size) ==
    /\ DeleteOldPredictions(days_old, batch_size)
    /\ UNCHANGED <<db, now, nextId, healthVars, engineVars>>

GetActivePredictions(u) ==
    /\ last' = [op |-> "get_active", user |-> u, result |-> ActiveRows(view, u, now)]
    /\ UNCHANGED <<db, view, now, nextId, healthVars, engineVars>>

GetHighConfidencePredictions(u) ==
    \E S \in TakeOrdered(HighConfidenceRows(view, u, HighConfidenceThreshold, now),
                         HighConfidenceLimit, "confidence_score desc") :
        /\ last' = [op |-> "get_high_confidence", user |-> u, result |-> S]
        /\ UNCHANGED <<db, view, now, nextId, healthVars, engineVars>>

GetLatestPredictionByType(u, tp) ==
    \E S \in TakeOrdered(LatestByTypeRows(view, u, tp), 1, "created_at desc") :
        /\ last' = [op |-> "get_latest_by_type", user |-> u, type |-> tp, result |-> S]
        /\ UNCHANGED <<db, view, now, nextId, healthVars, engineVars>>

\* get_db_session: the session is closed without a commit; what was not
\* committed is rolled back.
CloseSession ==
    /\ view # db
    /\ view' = db
    /\ last' = NoOp
    /\ UNCHANGED <<db, now, nextId, healthVars, engineVars>>

Tick ==
    /\ now + TickDays \in Days
    /\ now' = now + TickDays
    /\ last' = NoOp
    /\ UNCHANGED <<db, view, nextId, healthVars, engineVars>>

----------------------------------------------------------------------------
\* The /predictions endpoints.  A request runs on a session of its own,
\* opened by get_db_session and closed, without a commit, when the handler
\* returns; requests are served one at a time.

\* POST /predictions/{id}/archive and /dismiss: get_by_id, the owner check,
\* then the repository's update.
\* An endpoint that forgets the owner check.
ApiSetStatusAnyOwner(opname, u, id, s) ==
    /\ view = db
    /\ IF RowById(view, id) = {}
       THEN /\ last' = [op |-> opname, user |-> u, id |-> id, code |-> 404,
                         was |-> StatusOf(view, id)]
            /\ UNCHANGED <<db, view>>
       ELSE /\ db' = UpdateById(view, id, s, now)
            /\ view' = db'
            /\ last' = [op |-> opname, user |-> u, id |-> id, code |-> 200,
                         was |-> StatusOf(view, id)]
    /\ UNCHANGED <<now, nextId, healthVars, engineVars>>

ApiSetStatus(opname, u, id, s) ==
    /\ view = db
    /\ IF RowById(view, id) = {}
       THEN /\ last' = [op |-> opname, user |-> u, id |-> id, code |-> 404,
                         was |-> StatusOf(view, id)]
            /\ UNCHANGED <<db, view>>
       ELSE IF \E r \in RowById(view, id) : r.user_id # u
       THEN /\ last' = [op |-> opname, user |-> u, id |-> id, code |-> 403,
                         was |-> StatusOf(view, id)]
            /\ UNCHANGED <<db, view>>
       ELSE /\ db' = UpdateById(view, id, s, now)
            /\ view' = db'
            /\ last' = [op |-> opname, user |-> u, id |-> id, code |-> 200,
                         was |-> StatusOf(view, id)]
    /\ UNCHANGED <<now, nextId, healthVars, engineVars>>

ApiArchivePrediction(u, id) == ApiSetStatus("api_archive", u, id, "archived")

ApiDismissPrediction(u, id) == ApiSetStatus("api_dismiss", u, id, "dismissed")

\* POST /cleanup: cleanup_old_predictions(days_old, batch_size=100) on the
\* request's session.  deleted: the rows its DELETE statement removed.
ApiCleanupOldPredictions(u, days_old) ==
    /\ view = db
    /\ \E S \in TakeOrdered(CleanupRows(view, now - days_old), CleanupBatchSize, "none") :
        last' = [op |-> "api_cleanup", user |-> u, days_old |-> days_old,
                 count |-> BagCardinality(S), deleted |-> S]
    /\ UNCHANGED <<db, view, now, nextId, healthVars, engineVars>>

PredictionIds == 1 .. (MaxSingle + 1)

HealthTemplate == <<"financial_health", 80>>

Next ==
    \/ \E u \in Users, e \in ExpiryChoices(now) : Create(u, HealthTemplate, e)
    \/ BulkCreate("u1", HealthTemplate, {now - 1})
    \/ \E id \in PredictionIds : ArchivePrediction(id)
    \/ \E id \in PredictionIds : DismissPrediction(id)
    \/ \E u \in Users \cup {NoUser} : ArchiveExpiredPredictions(u)
    \/ \E d \in DaysOldChoices, b \in BatchSizes : CleanupOldPredictions(d, b)
    \/ \E u \in Users, id \in PredictionIds : ApiArchivePrediction(u, id)
    \/ \E u \in Users, id \in PredictionIds : ApiDismissPrediction(u, id)
    \/ \E u \in Users, d \in DaysOldChoices : ApiCleanupOldPredictions(u, d)
    \/ CloseSession
    \/ Tick

Spec == Init /\ [][Next]_vars

QueryNext ==
    \/ \E u \in Users, tp \in Templates, e \in ExpiryChoices(now) : Create(u, tp, e)
    \/ \E id \in PredictionIds : ArchivePrediction(id)
    \/ \E id \in PredictionIds : DismissPrediction(id)
    \/ \E u \in Users : GetActivePredictions(u)
    \/ \E u \in Users : GetHighConfidencePredictions(u)
    \/ \E u \in Users, tp \in PredictionTypes : GetLatestPredictionByType(u, tp)
    \/ Tick

QuerySpec == Init /\ [][QueryNext]_vars

----------------------------------------------------------------------------
\* The health scorer.  Amounts are whole currency units; a savings rate is in
\* hundredths.  The float comparisons of the code are made on integers:
\* e / i < 0.7 is 10 * e < 7 * i.

BaseScore == 50
ExpectedTransactions == 30
HelperPeriodDays == 180
NegativeTrendThreshold == 1000

Clamp(x) == IF x < 0 THEN 0 ELSE IF x > 100 THEN 100 ELSE x

\* if score >= 80 ... elif score >= 60 ... elif score >= 40 ... else
HealthLabel(score) ==
    IF score >= 80 THEN <<"Excelente", "Muito Baixo">>
    ELSE IF score >= 60 THEN <<"Boa", "Baixo">>
    ELSE IF score >= 40 THEN <<"Regular", "Medio">>
    ELSE <<"Precisa Atencao", "Alto">>

\* Income vs expenses ratio, given income > 0.
RatioPoints(income, expenses) ==
    IF 2 * expenses < income THEN 30
    ELSE IF 10 * expenses < 7 * income THEN 20
    ELSE IF 10 * expenses < 9 * income THEN 10
    ELSE IF 10 * expenses > 12 * income THEN -20
    ELSE 0

\* Savings rate, as num / den with den > 0.
SavingsPoints(num, den) ==
    IF 10 * num > 2 * den THEN 25
    ELSE IF 10 * num > den THEN 15
    ELSE IF num > 0 THEN 5
    ELSE -15

\* int(min(1.0, count / expected) * 15)
ConsistencyPoints(count, expected) == Min(15, (count * 15) \div expected)

\* AIService._calculate_health_score over the summary of the last 180 days,
\* with the value random.randint(5, 10) returned.
CalculateHealthScore(income, expenses, count, bonus) ==
    LET net == income - expenses
        ratio == IF income > 0 THEN RatioPoints(income, expenses) ELSE -30
        saving == IF income > 0 THEN SavingsPoints(net, income) ELSE -15
        score == Clamp(BaseScore + ratio + saving
                       + ConsistencyPoints(count, ExpectedTransactions) + bonus)
        trend == IF net > 0 THEN "Positiva"
                 ELSE IF net < -NegativeTrendThreshold THEN "Negativa"
                 ELSE "Estavel"
    IN  [done |-> TRUE, raised |-> FALSE, score |-> score,
         label |-> HealthLabel(score)[1], risk_level |-> HealthLabel(score)[2],
         trend |-> trend]

\* utils.ai_helpers.calculate_financial_health_score(income, expenses,
\* savings_rate, transaction_count, time_period_days), with the value
\* random.randint(0, 10) returned.  expected_transactions is
\* (time_period_days / 30) * 10; it returns no trend.
CalculateFinancialHealthScore(income, expenses, rate, count, days, bonus) ==
    LET ratio == IF income > 0 THEN RatioPoints(income, expenses) ELSE 0
        saving == SavingsPoints(rate, 100)
    IN  IF days = 0
        THEN [done |-> TRUE, raised |-> TRUE]
        ELSE LET score == Clamp(BaseScore + ratio + saving
                                + Min(15, (count * 15 * 3) \div days) + bonus)
             IN  [done |-> TRUE, raised |-> FALSE, score |-> score,
                  label |-> HealthLabel(score)[1],
                  risk_level |-> HealthLabel(score)[2]]

ServiceBonus == 5 .. 10
HelperBonus == 0 .. 10

Incomes == {0, 1000}
Expenses == {0, 400, 600, 800, 1000, 1300}
Counts == {0, 15, 60}
Rates == {-10, 0, 5, 8, 15, 25}

\* The evaluations under test: the same totals and count scored twice; the
\* helper's second call may be given a higher savings rate.  With no income the
\* caller's savings rate is the 0.0 it uses for a zero denominator.
HealthInputs ==
    {[fn |-> "service", income |-> i, expenses |-> e, count |-> c, rateA |-> 0, rateB |-> 0] :
        i \in Incomes, e \in Expenses, c \in Counts}
    \cup
    {in \in {[fn |-> "helper", income |-> i, expenses |-> e, count |-> c,
               rateA |-> ra, rateB |-> rb] :
                i \in Incomes \ {0}, e \in Expenses, c \in Counts,
                ra \in Rates, rb \in Rates} : in.rateB >= in.rateA}
    \cup
    {[fn |-> "helper", income |-> 0, expenses |-> e, count |-> c, rateA |-> 0, rateB |-> 0] :
        e \in Expenses, c \in Counts}

Outcomes(in, rate) ==
    IF in.fn = "service"
    THEN {CalculateHealthScore(in.income, in.expenses, in.count, b) : b \in ServiceBonus}
    ELSE {CalculateFinancialHealthScore(in.income, in.expenses, rate, in.count,
                                        HelperPeriodDays, b) : b \in HelperBonus}

HealthInit ==
    /\ StoreInit
    /\ EngineIdle
    /\ hin \in HealthInputs
    /\ evalA = NoEval
    /\ evalB = NoEval

EvaluateFirst ==
    /\ ~evalA.done
    /\ evalA' \in Outcomes(hin, hin.rateA)
    /\ UNCHANGED <<hin, evalB, storeVars, engineVars>>

EvaluateSecond ==
    /\ evalA.done
    /\ ~evalB.done
    /\ evalB' \in Outcomes(hin, hin.rateB)
    /\ UNCHANGED <<hin, evalA, storeVars, engineVars>>

HealthNext ==
    \/ EvaluateFirst
    \/ EvaluateSecond

HealthSpec == HealthInit /\ [][HealthNext]_vars

----------------------------------------------------------------------------
\* The anomaly detector: PatternAnalysisService.detect_anomalies.
\* Dates are days, amounts are whole reais, scores are in hundredths.

Today == 0
AnomalyDays == 30
HistoricalDays == 180
FetchLimit == 1000

Categories == {"Lazer", "Mercado"}
Amounts == {100, 150, 151, 250}

\* The days on and next to the ends of the two windows.
TxDates ==
    {Today, Today - AnomalyDays, Today - AnomalyDays - 1,
     Today - AnomalyDays - HistoricalDays, Today - AnomalyDays - HistoricalDays - 1}

\* Transactions as the transaction schema admits them: amount > 0.
Transactions ==
    [transaction_date : TxDates, type : {"expense"}, category_name : Categories,
     amount : Amounts]
    \cup [transaction_date : TxDates, type : {"income"}, category_name : {"Salario"},
          amount : {250}]

\* TransactionRepository.get_user_transactions(start_date, end_date, limit):
\* both ends of the date range are included.
GetUserTransactions(L, start_date, end_date, limit) ==
    TakeOrdered(SetToBag({t \in L : /\ t.transaction_date >= start_date
                                    /\ t.transaction_date <= end_date}),
                limit, "transaction_date desc")

ExpensesOf(L) == {t \in L : t.type = "expense"}

RECURSIVE SumAmounts(_)
SumAmounts(L) ==
    IF L = {} THEN 0
    ELSE LET t == CHOOSE x \in L : TRUE IN t.amount + SumAmounts(L \ {t})

\* _calculate_category_baselines: min, max and avg (as sum over count) of the
\* expense amounts of each category.
CalculateCategoryBaselines(L) ==
    [c \in {t.category_name : t \in ExpensesOf(L)} |->
        LET A == {t \in ExpensesOf(L) : t.category_name = c}
        IN  [min |-> CHOOSE m \in {t.amount : t \in A} : \A t \in A : m <= t.amount,
             max |-> CHOOSE m \in {t.amount : t \in A} : \A t \in A : m >= t.amount,
             sum |-> SumAmounts(A),
             count |-> Cardinality(A)]]

\* An amount flagged when compared with max as the detector compares it.
IsAnomalousAtLeastMax(amount, max) == amount >= max

\* amount > baseline["max"] * Decimal("1.5")
IsAnomalous(amount, max) == 2 * amount > 3 * max

\* round(x, 2) of num / den, in hundredths; a tie goes to the even neighbour.
RoundHundredths(num, den) ==
    LET q == (100 * num) \div den
        r == (100 * num) % den
    IN  IF 2 * r > den \/ (2 * r = den /\ q % 2 = 1) THEN q + 1 ELSE q

\* round(float(min((amount - max) / max, 1.0)), 2)
AnomalyScore(amount, max) ==
    IF amount - max >= max THEN 100 ELSE RoundHundredths(amount - max, max)

DetectAnomalies(days) ==
    LET start_date == Today - days
        historical_start == start_date - HistoricalDays
    IN  \E R \in GetUserTransactions(ledger, start_date, Today, FetchLimit) :
        \E H \in GetUserTransactions(ledger, historical_start, start_date, FetchLimit) :
            LET recent == BagToSet(R)
                historical == BagToSet(H)
                baselines == CalculateCategoryBaselines(historical)
            IN  /\ anomalies' =
                      [done |-> TRUE, days |-> days,
                       recent |-> recent, historical |-> historical,
                       result |->
                          {[transaction |-> t,
                            category |-> t.category_name,
                            amount |-> t.amount,
                            expected_range |-> [min |-> baselines[t.category_name].min,
                                                max |-> baselines[t.category_name].max],
                            anomaly_score |-> AnomalyScore(t.amount, baselines[t.category_name].max),
                            detected_at |-> t.transaction_date,
                            is_recurring |-> FALSE] :
                           t \in {x \in ExpensesOf(recent) :
                                    /\ x.category_name \in DOMAIN baselines
                                    /\ IsAnomalous(x.amount, baselines[x.category_name].max)}}]
                /\ UNCHANGED <<ledger, exceptAnomaly>>

\* The ledger records one more transaction of the user, up to max of them.
AddTransactionUpTo(t, max) ==
    /\ Cardinality(ledger) < max
    /\ t \notin ledger
    /\ ledger' = ledger \cup {t}
    /\ anomalies' = NoRun
    /\ recommendations' = NoRun
    /\ simulation' = NoRun
    /\ generated' = NoRun
    /\ UNCHANGED <<storeVars, healthVars, correlationVars, goals, budgets, platformVars>>

AddTransaction(t) == AddTransactionUpTo(t, MaxTx)

AnomalyNext ==
    \/ \E t \in Transactions : AddTransaction(t)
    \/ DetectAnomalies(AnomalyDays)

AnomalySpec == Init /\ [][AnomalyNext]_vars

----------------------------------------------------------------------------
\* Pattern analysis: PatternAnalysisService._analyze_category_correlations.
\* Of each expense only the date and the category name are read.

MinCoOccurrence == 3
TopCorrelations == 3

CorrDays == 1 .. MaxCorrDays
CorrCategories == {"Lazer", "Mercado", "Saude", "Transporte"}
\* daily_categories: the categories with an expense on each date that has one.
DailyCategories(E) ==
    [d \in {e[1] : e \in E} |-> {e[2] : e \in {x \in E : x[1] = d}}]

\* The number of dates on which both categories have an expense.
CoOccurrence(E, cat1, cat2) ==
    Cardinality({d \in {e[1] : e \in E} : <<d, cat1>> \in E /\ <<d, cat2>> \in E})

\* list(set(...)): the categories in the iteration order of a set of strings,
\* which the build does not fix.
ListsOf(C) ==
    {f \in [1 .. Cardinality(C) -> C] : \A c \in C : \E i \in DOMAIN f : f[i] = c}

\* The index pairs i < j in the order the two nested loops visit them.
RECURSIVE InLoopOrder(_)
InLoopOrder(P) ==
    IF P = {} THEN << >>
    ELSE LET p == CHOOSE x \in P :
                    \A y \in P : x[1] < y[1] \/ (x[1] = y[1] /\ x[2] <= y[2])
         IN  <<p>> \o InLoopOrder(P \ {p})

Head3(q) == SubSeq(q, 1, Min(TopCorrelations, Len(q)))

\* The correlations found for the index pairs P of the list, in order.
CorrelationsFound(E, categories_list, order) ==
    [k \in 1 .. Len(order) |->
        [categories |-> <<categories_list[order[k][1]], categories_list[order[k][2]]>>,
         correlation |->
            RoundHundredths(
                CoOccurrence(E, categories_list[order[k][1]], categories_list[order[k][2]]),
                Cardinality(DOMAIN DailyCategories(E)))]]

QualifiedIndexPairs(E, categories_list) ==
    {p \in (1 .. Len(categories_list)) \X (1 .. Len(categories_list)) :
        /\ p[1] < p[2]
        /\ CoOccurrence(E, categories_list[p[1]], categories_list[p[2]]) >= MinCoOccurrence}

AnalyzeCategoryCorrelations ==
    /\ ~correlations.done
    /\ \E categories_list \in ListsOf({e[2] : e \in analysed}) :
       \E order \in {InLoopOrder(QualifiedIndexPairs(analysed, categories_list))} :
          /\ correlations' =
                [done |-> TRUE,
                 result |-> Head3(CorrelationsFound(analysed, categories_list, order))]
          /\ UNCHANGED <<analysed, exceptCorrelation>>

\* The transactions handed to the analysis hold one more day, with expenses
\* in the categories C.
AddExpenses(C) ==
    LET d == Cardinality({e[1] : e \in analysed}) + 1
    IN  /\ ~correlations.done
        /\ d \in CorrDays
        /\ analysed' = analysed \cup ({d} \X C)
        /\ UNCHANGED correlations
        /\ UNCHANGED exceptCorrelation

CorrelationNext ==
    \/ \E C \in (SUBSET CorrCategories) \ {{}} : AddExpenses(C)
    \/ AnalyzeCategoryCorrelations

CorrelationSpec == Init /\ [][CorrelationNext]_vars

----------------------------------------------------------------------------
\* The recommendation engine: RecommendationService.
\* Amounts that are quotients are kept as num / den.

DefaultMaxRecommendations == 5
RecommendationDays == 90
RecommendationMonths == 3
ConcentrationPercent == 30
HighConcentrationPercent == 40
ReductionPercent == 15
TargetSavingsPercent == 20
DaysPerMonth == 30
DefaultAlertThreshold == 80

\* What the classes the service is built from offer: TransactionRepository
\* defines no get_by_date_range, BaseRepository.get_all takes no user_id, and
\* RecommendationService.__init__ sets no budget_repo.
HasGetByDateRange == FALSE
GetAllTakesUserId == FALSE
HasBudgetRepo == FALSE

PriorityScore(priority) ==
    CASE priority = "urgent" -> 4
      [] priority = "high" -> 3
      [] priority = "medium" -> 2
      [] priority = "low" -> 1
      [] OTHER -> 0

\* The transactions of today, which every window of the service holds.
RecTransactions == {t \in Transactions : t.transaction_date = Today}

GoalTargetAmount == 300
Goals ==
    [status : {"active", "paused"},
     target_amount : {GoalTargetAmount},
     current_amount : {0, GoalTargetAmount},
     target_date : {{}, {Today + 10}, {Today + 60}, {Today - 40}}]

BudgetAmount == 100
Budgets ==
    [amount : {BudgetAmount}, spent_amount : {50, 80, 120},
     alert_threshold : {DefaultAlertThreshold}, category : {"Lazer"}]

\* Budget.spent_percentage >= alert_threshold, Budget.spent_amount > amount
IsNearLimit(b) ==
    IF b.amount = 0 THEN 0 >= b.alert_threshold
    ELSE Min(100 * b.spent_amount, 100 * b.amount) >= b.alert_threshold * b.amount
IsExceeded(b) == b.spent_amount > b.amount

TotalOf(L, type) == SumAmounts({t \in L : t.type = type})

CategorySpending(L) ==
    [c \in {t.category_name : t \in ExpensesOf(L)} |->
        SumAmounts({t \in ExpensesOf(L) : t.category_name = c})]

\* _generate_spending_recommendations
SpendingRecommendations(L) ==
    IF TotalOf(L, "expense") = 0 THEN {}
    ELSE {[kind |-> "spending", subject |-> c,
           priority |-> IF 100 * CategorySpending(L)[c]
                              > HighConcentrationPercent * TotalOf(L, "expense")
                        THEN "high" ELSE "medium",
           potential_impact |-> [num |-> ReductionPercent * CategorySpending(L)[c],
                                 den |-> 100],
           ai_confidence |-> 82] :
          c \in {x \in DOMAIN CategorySpending(L) :
                    100 * CategorySpending(L)[x]
                        > ConcentrationPercent * TotalOf(L, "expense")}}

\* (total_income - total_expenses) / months is months-th parts of NetOf; it is
\* the float 0.0 when both sums are over no transaction at all.
NetOf(L) == TotalOf(L, "income") - TotalOf(L, "expense")
SavingsIsFloat(L) == {t \in L : t.type \in {"income", "expense"}} = {}

\* int(remaining / monthly_savings); the Decimal quotient is exact for the
\* amounts of Goals.
MonthsNeeded(g, L) ==
    IF NetOf(L) > 0
    THEN (RecommendationMonths * (g.target_amount - g.current_amount)) \div NetOf(L)
    ELSE 0

\* (goal.target_date - date.today()).days // 30
TargetMonths(g) == ((CHOOSE d \in g.target_date : TRUE) - Today) \div DaysPerMonth

\* The goals for which the loop reaches the computation of additional_needed.
PacedGoals(G, L) ==
    {g \in G : /\ g.status = "active"
               /\ g.target_date # {}
               /\ MonthsNeeded(g, L) > TargetMonths(g)}

\* What remaining / target_months - monthly_savings raises for goal g.
GoalErrors(g, L) ==
    IF TargetMonths(g) = 0 THEN {"ZeroDivisionError"}
    ELSE IF SavingsIsFloat(L) THEN {"TypeError"}
    ELSE {}

GoalRecommendation(g, L) ==
    [kind |-> "goal", subject |-> g, priority |-> "high",
     potential_impact |->
        [num |-> RecommendationMonths * (g.target_amount - g.current_amount)
                    - NetOf(L) * TargetMonths(g),
         den |-> RecommendationMonths * TargetMonths(g)],
     ai_confidence |-> 78]

\* _generate_goal_recommendations: the error of the first goal that raises,
\* or the recommendations.
GoalOutcomes(G, L) ==
    IF \E g \in PacedGoals(G, L) : GoalErrors(g, L) # {}
    THEN {[raised |-> TRUE, error |-> e, result |-> {}] :
            e \in UNION {GoalErrors(g, L) : g \in PacedGoals(G, L)}}
    ELSE {[raised |-> FALSE, error |-> "none",
           result |-> {GoalRecommendation(g, L) : g \in PacedGoals(G, L)}]}

\* _generate_savings_recommendations
SavingsRecommendations(L) ==
    IF TotalOf(L, "income") = 0 THEN {}
    ELSE IF 100 * NetOf(L) < TargetSavingsPercent * TotalOf(L, "income")
    THEN {[kind |-> "savings", subject |-> "Poupanca", priority |-> "high",
           potential_impact |->
              [num |-> TargetSavingsPercent * TotalOf(L, "income") - 100 * NetOf(L),
               den |-> 100 * RecommendationMonths],
           ai_confidence |-> 88]}
    ELSE {}

\* _generate_budget_recommendations: the error of self.budget_repo is caught
\* and logged, and the list built so far, empty, is returned.
BudgetRecommendations(B) ==
    IF ~HasBudgetRepo THEN {}
    ELSE {[kind |-> "budget", subject |-> b,
           priority |-> IF IsExceeded(b) THEN "urgent" ELSE "high",
           potential_impact |-> [num |-> IF b.amount > b.spent_amount
                                         THEN b.amount - b.spent_amount ELSE 0,
                                 den |-> 1],
           ai_confidence |-> 92] :
          b \in {x \in B : IsNearLimit(x) \/ IsExceeded(x)}}

\* The orders a list built from the items of S can have.
OrdersOf(S) ==
    {f \in [1 .. Cardinality(S) -> S] : \A x \in S : \E i \in DOMAIN f : f[i] = x}

\* r goes before q in a sort by (priority score, ai_confidence), reverse=True.
RanksAbove(r, q) ==
    \/ PriorityScore(r.priority) > PriorityScore(q.priority)
    \/ /\ PriorityScore(r.priority) = PriorityScore(q.priority)
       /\ r.ai_confidence > q.ai_confidence

\* list.sort(key, reverse=True): stable, items with equal keys keep their order.
RECURSIVE SortRecommendations(_)
SortRecommendations(q) ==
    IF q = << >> THEN << >>
    ELSE LET i == CHOOSE k \in DOMAIN q :
                    /\ \A j \in DOMAIN q : ~RanksAbove(q[j], q[k])
                    /\ \A j \in 1 .. (k - 1) : RanksAbove(q[k], q[j])
             rest == [j \in 1 .. (Len(q) - 1) |-> IF j < i THEN q[j] ELSE q[j + 1]]
         IN  <<q[i]>> \o SortRecommendations(rest)

\* recommendations[:max_recommendations], for max_recommendations >= 0
Truncate(q, max_recommendations) == SubSeq(q, 1, Min(max_recommendations, Len(q)))

GenerateSpendingRecommendations ==
    /\ recommendations' =
          [done |-> TRUE, call |-> "spending", raised |-> FALSE, error |-> "none",
           candidates |-> SpendingRecommendations(ledger)]
    /\ UNCHANGED <<goals, budgets, exceptRecommendation>>

GenerateGoalRecommendations ==
    \E o \in GoalOutcomes(goals, ledger) :
        /\ recommendations' =
              [done |-> TRUE, call |-> "goal", raised |-> o.raised, error |-> o.error,
               candidates |-> o.result]
        /\ UNCHANGED <<goals, budgets, exceptRecommendation>>

GenerateBudgetRecommendations ==
    /\ recommendations' =
          [done |-> TRUE, call |-> "budget", raised |-> FALSE, error |-> "none",
           candidates |-> BudgetRecommendations(budgets)]
    /\ UNCHANGED <<goals, budgets, exceptRecommendation>>

\* generate_recommendations(user_id, max_recommendations): the two fetches,
\* the four generators, the sort and the cut.
GenerateRecommendations(max_recommendations) ==
    /\ IF ~HasGetByDateRange
       THEN recommendations' =
              [done |-> TRUE, call |-> "generate", max |-> max_recommendations,
               raised |-> TRUE, error |-> "AttributeError",
               candidates |-> {}, result |-> << >>]
       ELSE IF ~GetAllTakesUserId
       THEN recommendations' =
              [done |-> TRUE, call |-> "generate", max |-> max_recommendations,
               raised |-> TRUE, error |-> "TypeError",
               candidates |-> {}, result |-> << >>]
       ELSE \E o \in GoalOutcomes(goals, ledger) :
              IF o.raised
              THEN recommendations' =
                     [done |-> TRUE, call |-> "generate", max |-> max_recommendations,
                      raised |-> TRUE, error |-> o.error,
                      candidates |-> {}, result |-> << >>]
              ELSE \E sp \in OrdersOf(SpendingRecommendations(ledger)) :
                   \E go \in OrdersOf(o.result) :
                   \E sv \in OrdersOf(SavingsRecommendations(ledger)) :
                   \E bu \in OrdersOf(BudgetRecommendations(budgets)) :
                     recommendations' =
                       [done |-> TRUE, call |-> "generate", max |-> max_recommendations,
                        raised |-> FALSE, error |-> "none",
                        candidates |-> {(sp \o go \o sv \o bu)[k] :
                                          k \in 1 .. Len(sp \o go \o sv \o bu)},
                        result |-> Truncate(SortRecommendations(sp \o go \o sv \o bu),
                                            max_recommendations)]
    /\ UNCHANGED <<goals, budgets, exceptRecommendation>>

AddGoal(g) ==
    /\ Cardinality(goals) < MaxGoals
    /\ g \notin goals
    /\ goals' = goals \cup {g}
    /\ recommendations' = NoRun
    /\ UNCHANGED <<budgets, exceptRecommendation>>

AddBudget(b) ==
    /\ Cardinality(budgets) < MaxBudgets
    /\ b \notin budgets
    /\ budgets' = budgets \cup {b}
    /\ recommendations' = NoRun
    /\ UNCHANGED <<goals, exceptRecommendation>>

MaxCounts == {1, DefaultMaxRecommendations}

RecommendationNext ==
    \/ \E t \in RecTransactions : AddTransaction(t)
    \/ \E g \in Goals : AddGoal(g)
    \/ \E b \in Budgets : AddBudget(b)
    \/ GenerateSpendingRecommendations
    \/ GenerateGoalRecommendations
    \/ GenerateBudgetRecommendations
    \/ \E n \in MaxCounts : GenerateRecommendations(n)

RecommendationSpec == Init /\ [][RecommendationNext]_vars

----------------------------------------------------------------------------
\* The scenario simulator: SimulationService behind POST /simulations.
\* The monthly averages are sixths of a real (a total over six months) and
\* the multipliers are hundredths, so the amounts of a trajectory are kept in
\* six-hundredths of a real.

SimulationDays == 180
SimulationMonths == 6
HorizonFloor == 1
HorizonCeiling == 120

MaxHorizon == 2

\* FinancialSimulation as a request body carries it, before validation.
Scenarios ==
    [income_adjustment : {-200, 0, 10},
     expense_adjustment : {-10, 0},
     savings_increase : {0, 10},
     time_horizon_months : {-1, 0, 1, MaxHorizon}]

\* FinancialSimulation: time_horizon_months has ge=1, le=120; the three
\* adjustments are floats without a constraint.
ValidScenario(s) ==
    /\ s.time_horizon_months >= HorizonFloor
    /\ s.time_horizon_months <= HorizonCeiling

\* _get_historical_averages: total / 6 if total > 0 else 0, in sixths.
HistoricalAverages(L) ==
    LET total_income == SumAmounts({t \in L : t.type = "income"})
        total_expenses == SumAmounts({t \in L : t.type # "income"})
        avg_income == IF total_income > 0 THEN total_income ELSE 0
        avg_expenses == IF total_expenses > 0 THEN total_expenses ELSE 0
    IN  [avg_monthly_income |-> avg_income,
         avg_monthly_expenses |-> avg_expenses,
         avg_monthly_savings |-> avg_income - avg_expenses]

\* Decimal(str(1 + (adjustment / 100))), in hundredths.
Multiplier(adjustment) == 100 + adjustment

\* The loop of the two trajectory methods over range(1, months + 1), for a
\* monthly income and a monthly expense in six-hundredths.
Trajectory(monthly_income, monthly_expenses, months) ==
    LET monthly_savings == monthly_income - monthly_expenses
        cumulative_balance == months * monthly_savings
    IN  [final_balance |-> cumulative_balance,
         total_savings |-> cumulative_balance,
         monthly_average |-> IF months > 0 THEN cumulative_balance \div months ELSE 0,
         timeline |-> [month \in 1 .. months |->
                          [month |-> month,
                           income |-> monthly_income,
                           expenses |-> monthly_expenses,
                           savings |-> monthly_savings,
                           balance |-> month * monthly_savings]]]

\* _calculate_current_trajectory
CalculateCurrentTrajectory(historical_data, months) ==
    Trajectory(historical_data.avg_monthly_income * 100,
               historical_data.avg_monthly_expenses * 100, months)

\* _calculate_simulated_trajectory: savings_increase is not read.
CalculateSimulatedTrajectory(historical_data, s, months) ==
    Trajectory(historical_data.avg_monthly_income * Multiplier(s.income_adjustment),
               historical_data.avg_monthly_expenses * Multiplier(s.expense_adjustment),
               months)

\* round(num / den, 2) for a divisor of either sign, in hundredths.
RoundQuotient(num, den) ==
    IF den < 0 THEN RoundHundredths(-num, -den) ELSE RoundHundredths(num, den)

\* _calculate_comparison
CalculateComparison(current, simulated) ==
    LET balance_diff == simulated.final_balance - current.final_balance
    IN  [balance_difference |-> balance_diff,
         percentage_improvement |->
            IF current.final_balance # 0
            THEN RoundQuotient(100 * balance_diff, current.final_balance)
            ELSE 0,
         better_outcome |-> balance_diff > 0]

\* _check_goals_achievability, once the goals are fetched.
GoalsAchievable(G, trajectory) ==
    {g \in G : /\ g.status = "active"
               /\ trajectory.final_balance
                    >= 100 * SimulationMonths * (g.target_amount - g.current_amount)}

NoAverages == [avg_monthly_income |-> 0, avg_monthly_expenses |-> 0, avg_monthly_savings |-> 0]
NoTrajectory == Trajectory(0, 0, 0)
NoResult == [returned |-> FALSE]

\* POST /simulations: the request body is validated, then run_simulation
\* computes the averages, the two trajectories, the achievable goals (a
\* goal_repo.get_all(user_id=...) call) and the comparison.
RunSimulation(s) ==
    /\ IF ~ValidScenario(s)
       THEN simulation' =
              [done |-> TRUE, scenario |-> s, raised |-> TRUE, error |-> "ValidationError",
               computed |-> FALSE, historical |-> NoAverages,
               current |-> NoTrajectory, simulated |-> NoTrajectory,
               result |-> NoResult]
       ELSE \E T \in GetUserTransactions(ledger, Today - SimulationDays, Today, FetchLimit) :
              LET months == s.time_horizon_months
                  historical_data == HistoricalAverages(BagToSet(T))
                  current_trajectory == CalculateCurrentTrajectory(historical_data, months)
                  simulated_trajectory == CalculateSimulatedTrajectory(historical_data, s, months)
              IN  IF ~GetAllTakesUserId
                  THEN simulation' =
                         [done |-> TRUE, scenario |-> s, raised |-> TRUE, error |-> "TypeError",
                          computed |-> TRUE, historical |-> historical_data,
                          current |-> current_trajectory,
                          simulated |-> simulated_trajectory,
                          result |-> NoResult]
                  ELSE simulation' =
                         [done |-> TRUE, scenario |-> s, raised |-> FALSE, error |-> "none",
                          computed |-> TRUE, historical |-> historical_data,
                          current |-> current_trajectory,
                          simulated |-> simulated_trajectory,
                          result |->
                             [returned |-> TRUE,
                              final_balance |-> simulated_trajectory.final_balance,
                              total_savings |-> simulated_trajectory.total_savings,
                              monthly_average_balance |-> simulated_trajectory.monthly_average,
                              goals_achievable |-> GoalsAchievable(goals, simulated_trajectory),
                              timeline_data |-> simulated_trajectory.timeline,
                              comparison_to_current |->
                                 CalculateComparison(current_trajectory, simulated_trajectory)]]
    /\ UNCHANGED <<exceptSimulation>>

\* The transactions on the two sides of the 180 days the averages are taken over.
SimTransactions ==
    {t \in Transactions :
        t.transaction_date \in {Today, Today - AnomalyDays - HistoricalDays - 1}}

SimulationNext ==
    \/ \E t \in SimTransactions : AddTransaction(t)
    \/ \E s \in Scenarios : RunSimulation(s)

SimulationSpec == Init /\ [][SimulationNext]_vars

----------------------------------------------------------------------------
\* The prediction generator: AIService.generate_predictions behind
\* POST /generate, which stores what it makes through
\* AIPredictionRepository.create.

PredictionDays == 90
HealthDays == 180
MinSavingsPoints == 5
MinExpensePoints == 3
MinIncomePoints == 2
HealthExpiryDays == 30
HealthConfidence == 80
DefaultTimeHorizon == 30

MaxTypes == 2
MaxHistory == 6
MaxGenerated == 2

GeneratedTypes ==
    {"savings_projection", "expense_forecast", "income_prediction", "financial_health"}

\* PredictionRequest: the requested types in their order, and the horizon in days.
PredictionRequests ==
    [prediction_types : UNION {[1 .. n -> GeneratedTypes] : n \in 0 .. MaxTypes},
     time_horizon : {DefaultTimeHorizon}]

\* TransactionRepository.get_transaction_summary(start_date, end_date): both
\* ends of the range are included.
TransactionSummary(L, start_date, end_date) ==
    LET T == {t \in L : t.transaction_date >= start_date /\ t.transaction_date <= end_date}
        total_income == SumAmounts({t \in T : t.type = "income"})
        total_expenses == SumAmounts({t \in T : t.type = "expense"})
    IN  [total_income |-> total_income,
         total_expenses |-> total_expenses,
         net_amount |-> total_income - total_expenses,
         transaction_count |-> Cardinality(T),
         income_count |-> Cardinality({t \in T : t.type = "income"}),
         expense_count |-> Cardinality({t \in T : t.type = "expense"})]

\* The summary each generator asks for.
SummaryFor(type, L) ==
    IF type = "financial_health"
    THEN TransactionSummary(L, Today - HealthDays, Today)
    ELSE TransactionSummary(L, Today - PredictionDays, Today)

\* if summary[...] < n: return None; the health score has no such test.
EnoughData(type, summary) ==
    CASE type = "savings_projection" -> summary.transaction_count >= MinSavingsPoints
      [] type = "expense_forecast" -> summary.expense_count >= MinExpensePoints
      [] type = "income_prediction" -> summary.income_count >= MinIncomePoints
      [] OTHER -> TRUE

\* min(hi, max(lo, num / den)), in hundredths.
ClampRatio(lo, hi, num, den) ==
    IF 100 * num <= lo * den THEN lo
    ELSE IF 100 * num >= hi * den THEN hi
    ELSE (100 * num) \div den

\* confidence_score of the prediction of a type.
ConfidenceOf(type, summary) ==
    CASE type = "savings_projection" -> ClampRatio(30, 90, summary.transaction_count, 50)
      [] type = "expense_forecast" -> ClampRatio(40, 85, summary.expense_count, 30)
      [] type = "income_prediction" -> ClampRatio(60, 95, summary.income_count, 10)
      [] OTHER -> HealthConfidence

\* expires_at of the prediction of a type, counted from utcnow().
ExpiryDaysOf(type, time_horizon) ==
    IF type = "financial_health" THEN HealthExpiryDays ELSE time_horizon

\* The session before the loop of generate_predictions.
NewLoop(id) ==
    [session_active |-> TRUE, id |-> id, predictions |-> << >>, outcomes |-> << >>]

\* The loop of generate_predictions from its i-th requested type on.  A
\* generator returns None without enough data; the INSERT of create() fails at
\* flush for the indices in faults.  create() and the except clause of the
\* loop roll nothing back, so after a failed flush the session's transaction
\* is inactive and every later statement on it raises PendingRollbackError,
\* which the loop catches as it catches the first error.
RECURSIVE GenerateFrom(_, _, _, _, _, _)
GenerateFrom(u, request, faults, L, i, loop) ==
    IF i > Len(request.prediction_types) THEN loop
    ELSE LET type == request.prediction_types[i]
             summary == SummaryFor(type, L)
             prediction ==
                 NewRow(loop.id, u, <<type, ConfidenceOf(type, summary)>>,
                        {now + ExpiryDaysOf(type, request.time_horizon)}, now)
             after ==
                 IF ~loop.session_active
                 THEN [loop EXCEPT !.outcomes = Append(@, "error")]
                 ELSE IF ~EnoughData(type, summary)
                 THEN [loop EXCEPT !.outcomes = Append(@, "none")]
                 ELSE IF i \in faults
                 THEN [loop EXCEPT !.session_active = FALSE,
                                   !.outcomes = Append(@, "error")]
                 ELSE [loop EXCEPT !.id = @ + 1,
                                   !.predictions = Append(@, prediction),
                                   !.outcomes = Append(@, "created")]
         IN  GenerateFrom(u, request, faults, L, i + 1, after)

RowsOf(q) == {q[k] : k \in 1 .. Len(q)}

\* generate_predictions(user_id, request) for an existing user.
GeneratePredictions(u, request) ==
    /\ nextId + Len(request.prediction_types) - 1 <= MaxGenerated
    /\ \E faults \in SUBSET (1 .. Len(request.prediction_types)) :
          LET loop == GenerateFrom(u, request, faults, ledger, 1, NewLoop(nextId))
          IN  /\ view' = view (+) SetToBag(RowsOf(loop.predictions))
              /\ db' = view'
              /\ nextId' = loop.id
              /\ generated' =
                    [done |-> TRUE, user_id |-> u, request |-> request,
                     faults |-> faults, outcomes |-> loop.outcomes,
                     raised |-> FALSE, result |-> loop.predictions]
    /\ last' = NoOp
    /\ UNCHANGED <<now, healthVars, anomalyVars, correlationVars, recommendationVars,
                   simulationVars, platformVars>>

\* Two incomes and three expenses inside the 90 days, one expense before them.
GenTransactions ==
    {t \in Transactions :
        \/ t.type = "income" /\ t.transaction_date \in {Today, Today - AnomalyDays}
        \/ /\ t.type = "expense" /\ t.amount = 100
           /\ \/ t.transaction_date = Today
              \/ t.category_name = "Lazer"
                 /\ t.transaction_date \in {Today - AnomalyDays,
                                            Today - AnomalyDays - HistoricalDays - 1}}

GenerationNext ==
    \/ \E t \in GenTransactions : AddTransactionUpTo(t, MaxHistory)
    \/ \E request \in PredictionRequests : GeneratePredictions("u1", request)

GenerationSpec == Init /\ [][GenerationNext]_vars

----------------------------------------------------------------------------
\* The seasonal detector: PatternAnalysisService.detect_seasonal_patterns.
\* Time is counted in months from January of the first year; the category
\* has one expense a month, on its 15th, and the detector runs on the 20th of
\* the month of the last one.  Variations are in hundredths of a percent.

SeasonalMonths == 24
PeakFactorTenths == 13
MinSeasonalMonths == 3
MaxAnnualPeaks == 3

MaxMonths == 30

SeasonalCategory == "Viagem"
July == 7
December == 12

month_names_pt ==
    <<"Janeiro", "Fevereiro", "Marco", "Abril", "Maio", "Junho", "Julho", "Agosto",
      "Setembro", "Outubro", "Novembro", "Dezembro">>

\* month_numbers.get(m, 0)
MonthNumber(name) ==
    IF \E n \in 1 .. 12 : month_names_pt[n] = name
    THEN CHOOSE n \in 1 .. 12 : month_names_pt[n] = name
    ELSE 0

\* The month and the year of the k-th month counted.
MonthOf(k) == ((k - 1) % 12) + 1
YearOf(k) == (k - 1) \div 12

\* What the category may cost in a month.
MonthlyAmounts(month) == IF month \in {July, December} THEN {200, 900} ELSE {200}

\* get_user_transactions(start_date = today - 730 days, end_date = today):
\* the months whose expense is inside the two years.
SeasonalWindow(H) == {k \in 1 .. Len(H) : k > Len(H) - SeasonalMonths}

\* category_monthly[category]: the sum of the window by month name.
MonthlyData(H) ==
    [name \in {month_names_pt[MonthOf(k)] : k \in SeasonalWindow(H)} |->
        LET ks == {k \in SeasonalWindow(H) : month_names_pt[MonthOf(k)] = name}
            earlier == CHOOSE k \in ks : \A j \in ks : k <= j
        IN  IF Cardinality(ks) = 1 THEN H[earlier]
            ELSE H[earlier] + H[earlier + 12]]

RECURSIVE SumValues(_, _)
SumValues(f, D) ==
    IF D = {} THEN 0
    ELSE LET d == CHOOSE x \in D : TRUE IN f[d] + SumValues(f, D \ {d})

MaxValue(f) == CHOOSE v \in {f[d] : d \in DOMAIN f} : \A d \in DOMAIN f : f[d] <= v

\* amount > avg_amount * Decimal("1.3"), with avg_amount = sum / len
IsPeak(amount, sum, len) == 10 * amount * len > PeakFactorTenths * sum

\* _calculate_next_peak_date(peak_months) with today in current_month of year.
CalculateNextPeakDate(peak_months, current_month, year) ==
    LET peak_nums == {MonthNumber(m) : m \in peak_months}
        later == {n \in peak_nums : n > current_month}
        first == CHOOSE n \in peak_nums : \A j \in peak_nums : n <= j
        next == CHOOSE n \in later : \A j \in later : n <= j
    IN  IF peak_months = {} THEN {}
        ELSE IF later = {}
        THEN IF first = 0 THEN {} ELSE {[year |-> year + 1, month |-> first, day |-> 1]}
        ELSE {[year |-> year, month |-> next, day |-> 1]}

\* The loop over category_monthly, for the one category.
SeasonalPatterns(H) ==
    LET monthly_data == MonthlyData(H)
        len == Cardinality(DOMAIN monthly_data)
        sum == SumValues(monthly_data, DOMAIN monthly_data)
        peak_months == {m \in DOMAIN monthly_data : IsPeak(monthly_data[m], sum, len)}
        max_amount == MaxValue(monthly_data)
    IN  IF len < MinSeasonalMonths \/ peak_months = {} THEN {}
        ELSE {[category |-> SeasonalCategory,
               pattern_type |-> IF Cardinality(peak_months) <= MaxAnnualPeaks
                                THEN "Anual" ELSE "Trimestral",
               peak_months |-> peak_months,
               average_variation |-> RoundHundredths(100 * (max_amount * len - sum), sum),
               next_peak_date |-> CalculateNextPeakDate(peak_months, MonthOf(Len(H)),
                                                        YearOf(Len(H)))]}

DetectSeasonalPatterns ==
    /\ history # << >>
    /\ patterns' = [done |-> TRUE, result |-> SeasonalPatterns(history)]
    /\ UNCHANGED <<history, exceptSeasonal>>

\* A month goes by, with the category's expense of that month.
NextMonth(amount) ==
    /\ Len(history) < MaxMonths
    /\ amount \in MonthlyAmounts(MonthOf(Len(history) + 1))
    /\ history' = Append(history, amount)
    /\ patterns' = NoRun
    /\ UNCHANGED exceptSeasonal

SeasonalNext ==
    \/ \E amount \in {200, 900} : NextMonth(amount)
    \/ DetectSeasonalPatterns

SeasonalSpec == Init /\ [][SeasonalNext]_vars

----------------------------------------------------------------------------
\* A caller that loops cleanup_old_predictions on its session until the call
\* returns 0.  The table is filled and aged first; the loop then runs alone.

PurgeBatchSizes == {1, CleanupBatchSize}

StartPurge(days_old, batch_size) ==
    /\ purge.phase = "idle"
    /\ purge' = [phase |-> "looping", calls |-> 0,
                 days_old |-> days_old, batch_size |-> batch_size]
    /\ last' = NoOp
    /\ UNCHANGED <<db, view, now, nextId, besidePurge>>

\* One call of the loop: it goes on while the call returns more than 0.
PurgeCall ==
    /\ purge.phase = "looping"
    /\ DeleteOldPredictions(purge.days_old, purge.batch_size)
    /\ purge' = [purge EXCEPT !.phase = IF last'.count = 0 THEN "ended" ELSE "looping",
                              !.calls = @ + 1]
    /\ UNCHANGED <<db, now, nextId, besidePurge>>

\* The caller's request ends: get_db_session closes the session, and what
\* was not committed is rolled back.
PurgeSessionClosed ==
    /\ purge.phase = "ended"
    /\ view # db
    /\ view' = db
    /\ UNCHANGED <<db, now, nextId, last, healthVars, engineVars>>

PurgeNext ==
    \/ purge.phase = "idle" /\ \E u \in Users, e \in ExpiryChoices(now) :
                                  Create(u, HealthTemplate, e)
    \/ purge.phase = "idle" /\ BulkCreate("u1", HealthTemplate, {now - 1})
    \/ purge.phase = "idle" /\ \E id \in PredictionIds : ArchivePrediction(id)
    \/ purge.phase = "idle" /\ \E u \in Users : ArchiveExpiredPredictions(u)
    \/ purge.phase = "idle" /\ Tick
    \/ \E d \in DaysOldChoices, b \in PurgeBatchSizes : StartPurge(d, b)
    \/ PurgeCall
    \/ PurgeSessionClosed

PurgeSpec == Init /\ [][PurgeNext]_vars /\ WF_vars(PurgeCall)

----------------------------------------------------------------------------
\* Authentication: AuthService.login and verify_2fa_and_login behind
\* POST /auth/login and /auth/verify-2fa.  Every user has one email and one
\* password; a request names a user or nobody and carries the right or a
\* wrong password, a valid or an invalid TOTP code.

\* User.is_2fa_enabled
Is2faEnabled(user) == user.two_factor_enabled /\ user.has_secret

\* authenticate_user: the user, or None for an unknown email, an inactive
\* user or a wrong password.
AuthenticateUser(email, password_valid) ==
    IF email \notin Users THEN {}
    ELSE IF ~accounts[email].is_active THEN {}
    ELSE IF ~password_valid THEN {}
    ELSE {email}

\* AuthService.login
LoginOutcome(email, password_valid) ==
    LET user == AuthenticateUser(email, password_valid)
        request == [op |-> "login", email |-> email, password_valid |-> password_valid,
                    was_active |-> email \in Users /\ accounts[email].is_active]
    IN  /\ IF user = {}
           THEN /\ response' = request @@ [status |-> 401,
                                           detail |-> "Email ou senha incorretos",
                                           access_token |-> FALSE]
                /\ UNCHANGED <<verified, tokens>>
           ELSE IF Is2faEnabled(accounts[email])
           THEN /\ response' = request @@ [status |-> 200, detail |-> "2fa_required",
                                           access_token |-> FALSE]
                /\ verified' = verified \cup {email}
                /\ UNCHANGED tokens
           ELSE /\ response' = request @@ [status |-> 200, detail |-> "bearer",
                                           access_token |-> TRUE]
                /\ tokens' = tokens \cup {[sub |-> email, second_factor |-> FALSE,
                                           password_verified |-> TRUE,
                                           totp_verified |-> FALSE]}
                /\ verified' = verified \cup {email}
        /\ UNCHANGED accounts

\* A login that reaches the service.
Login(email, password_valid) ==
    /\ LoginOutcome(email, password_valid)
    /\ UNCHANGED exceptAuth

\* POST /auth/verify-2fa?user_id=...
Verify2faAndLogin(user_id, totp_valid) ==
    LET request == [op |-> "verify_2fa", user_id |-> user_id, totp_valid |-> totp_valid]
    IN  /\ IF user_id \notin Users \/ ~accounts[user_id].is_active
           THEN /\ response' = request @@ [status |-> 401, detail |-> "not found or inactive",
                                           access_token |-> FALSE]
                /\ UNCHANGED tokens
           ELSE IF ~Is2faEnabled(accounts[user_id])
           THEN /\ response' = request @@ [status |-> 400, detail |-> "2fa not enabled",
                                           access_token |-> FALSE]
                /\ UNCHANGED tokens
           ELSE IF ~totp_valid
           THEN /\ response' = request @@ [status |-> 401, detail |-> "invalid code",
                                           access_token |-> FALSE]
                /\ UNCHANGED tokens
           ELSE /\ response' = request @@ [status |-> 200, detail |-> "bearer",
                                           access_token |-> TRUE]
                /\ tokens' = tokens \cup {[sub |-> user_id, second_factor |-> TRUE,
                                           password_verified |-> user_id \in verified,
                                           totp_verified |-> TRUE]}
        /\ UNCHANGED <<accounts, verified, exceptAuth>>

\* The user's row changes: the account is deactivated or reactivated, 2FA is
\* set up or switched off.
UpdateAccount(id, user) ==
    /\ accounts[id] # user
    /\ accounts' = [accounts EXCEPT ![id] = user]
    /\ verified' = verified \ {id}
    /\ response' = NoOp
    /\ UNCHANGED <<tokens, exceptAuth>>

AccountRows ==
    [is_active : BOOLEAN, two_factor_enabled : BOOLEAN, has_secret : BOOLEAN]

AuthNext ==
    \/ \E id \in Users, user \in AccountRows : UpdateAccount(id, user)
    \/ \E email \in Users \cup {NoUser}, password_valid \in BOOLEAN :
          Login(email, password_valid)
    \/ \E user_id \in Users \cup {NoUser}, totp_valid \in BOOLEAN :
          Verify2faAndLogin(user_id, totp_valid)

AuthSpec == Init /\ [][AuthNext]_vars

----------------------------------------------------------------------------
\* Rate limiting: RateLimiter with its three sliding windows, and the login
\* endpoint.  Times are whole seconds.  The limiter is an instance with a
\* small configuration, RateLimiter(RateLimitConfig(...)), whose limits are
\* ordered as the defaults are: burst < minute < hour.

MinuteWindow == 60
HourWindow == 3600
BurstWindow == 10

MaxPerMinute == 3
MaxPerHour == 4
MaxBurst == 2

config ==
    [requests_per_minute |-> MaxPerMinute,
     requests_per_hour |-> MaxPerHour,
     burst_limit |-> MaxBurst]

\* The instants at which something happens: two inside one burst window,
\* then past the burst window, past the minute window and past the hour.
Instants == {0, 5, 11, 22, 72, 3700}

\* _cleanup_old_requests: drops from the left while the oldest is older than
\* the window.
RECURSIVE CleanupOldRequests(_, _, _)
CleanupOldRequests(requests, window_seconds, current_time) ==
    IF requests # << >> /\ current_time - Head(requests) > window_seconds
    THEN CleanupOldRequests(Tail(requests), window_seconds, current_time)
    ELSE requests

\* _check_rate_limit: the verdict and the log it leaves.
CheckRateLimit(window_seconds, max_requests, requests, current_time) ==
    LET kept == CleanupOldRequests(requests, window_seconds, current_time)
    IN  IF Len(kept) >= max_requests
        THEN [allowed |-> FALSE, requests |-> kept]
        ELSE [allowed |-> TRUE, requests |-> Append(kept, current_time)]

\* RateLimiter.is_allowed
IsAllowed(client_id) ==
    LET minute == CheckRateLimit(MinuteWindow, config.requests_per_minute,
                                 minute_requests[client_id], clock)
        hour == CheckRateLimit(HourWindow, config.requests_per_hour,
                               hour_requests[client_id], clock)
        burst == CleanupOldRequests(burst_requests[client_id], BurstWindow, clock)
        burst_allowed == Len(burst) < config.burst_limit
    IN  /\ minute_requests' = [minute_requests EXCEPT ![client_id] = minute.requests]
        /\ hour_requests' = [hour_requests EXCEPT ![client_id] = hour.requests]
        /\ burst_requests' =
              [burst_requests EXCEPT
                 ![client_id] = IF burst_allowed THEN Append(burst, clock) ELSE burst]
        /\ verdict' = [op |-> "is_allowed", client_id |-> client_id, time |-> clock,
                       minute_before |-> minute_requests[client_id],
                       hour_before |-> hour_requests[client_id],
                       burst_before |-> burst_requests[client_id],
                       is_allowed |-> minute.allowed /\ hour.allowed /\ burst_allowed]
        /\ UNCHANGED <<clock, admitted, exceptLimiter>>

\* The most requests of one client followed within one window.
MaxAdmitted == 4

\* POST /auth/login: the route has no dependency, the handler goes straight
\* to AuthService.login.
PostLogin(client_id, email, password_valid) ==
    /\ Len(admitted[client_id]) < MaxAdmitted
    /\ LoginOutcome(email, password_valid)
    /\ admitted' =
          [admitted EXCEPT
             ![client_id] = Append(CleanupOldRequests(@, MinuteWindow, clock), clock)]
    /\ UNCHANGED <<clock, minute_requests, hour_requests, burst_requests, verdict,
                   exceptAuthLimiter>>

\* Time passes.
Advance(t) ==
    /\ t > clock
    /\ clock' = t
    /\ UNCHANGED <<minute_requests, hour_requests, burst_requests, verdict, admitted,
                   exceptLimiter>>

LimiterNext ==
    \/ \E client_id \in Clients : IsAllowed(client_id)
    \/ \E t \in Instants : Advance(t)

EndpointNext ==
    \/ \E client_id \in Clients, password_valid \in BOOLEAN :
          PostLogin(client_id, "u1", password_valid)
    \/ \E t \in Instants : Advance(t)

EndpointSpec == Init /\ [][EndpointNext]_vars

LimiterSpec == Init /\ [][LimiterNext]_vars

----------------------------------------------------------------------------
\* archive_expired_predictions on a session of its own, step by step, while
\* other requests run dismiss_prediction on theirs.  The database is
\* PostgreSQL at READ COMMITTED: a statement sees what is committed when it
\* runs, plus its own transaction's writes, and an UPDATE locks its row until
\* its transaction ends.  db is the committed table; the other requests
\* commit each statement, so their view equals db.

\* The most predictions created while a sweep may run.
MaxSwept == 2

SweptIds == 1 .. MaxSwept

\* The ids of the rows of S in the order of the SELECT: ORDER BY expires_at.
UpdatesOf(S) ==
    {q \in [1 .. BagCardinality(S) -> {r.id : r \in DOMAIN S}] :
        /\ \A i, j \in DOMAIN q : i # j => q[i] # q[j]
        /\ \A i, j \in DOMAIN q :
              i < j => \A r \in RowById(S, q[i]), x \in RowById(S, q[j]) :
                          ~SortsBefore("expires_at", x, r)}

\* The rows the sweep's open transaction has written and still locks.
LockedIds == {w.id : w \in sweep.written}

\* What the sweep's writes make of the table once they are committed.
WithWrites(B, W) ==
    BagOfAll(LAMBDA r : IF \E w \in W : w.id = r.id
                        THEN SetStatus(r, "archived",
                                       (CHOOSE w \in W : w.id = r.id).at)
                        ELSE r, B)

\* archive_expired_predictions, first statement: get_expired_predictions.
SweepSelect(u) ==
    /\ sweep.pc = "idle"
    /\ \E S \in GetExpiredPredictions(db, u, now) :
          IF S = EmptyBag
          THEN UNCHANGED sweep
          ELSE \E q \in UpdatesOf(S) :
                  sweep' = [pc |-> "updating", updates |-> q, written |-> {}]
    /\ UNCHANGED <<storeVars, besideSweep>>

\* bulk_update, one turn of its loop: UPDATE ... SET status = 'archived'
\* WHERE id = record_id.
SweepUpdate ==
    /\ sweep.pc = "updating"
    /\ LET record_id == Head(sweep.updates)
           rowcount == IF RowById(db, record_id) = {} THEN 0 ELSE 1
       IN  sweep' = [pc |-> IF Tail(sweep.updates) = << >> THEN "returned"
                            ELSE "updating",
                     updates |-> Tail(sweep.updates),
                     written |-> IF rowcount = 0 THEN sweep.written
                                 ELSE sweep.written \cup
                                        {[id |-> record_id, at |-> now]}]
    /\ UNCHANGED <<storeVars, besideSweep>>

\* The sweep's caller commits its session.
SweepCommit ==
    /\ sweep.pc = "returned"
    /\ db' = WithWrites(db, sweep.written)
    /\ view' = db'
    /\ sweep' = NoSweep
    /\ UNCHANGED <<now, nextId, last, besideSweep>>

\* The sweep's caller closes its session without a commit.
SweepSessionClosed ==
    /\ sweep.pc = "returned"
    /\ sweep' = NoSweep
    /\ UNCHANGED <<storeVars, besideSweep>>

\* dismiss_prediction of another request; its UPDATE waits for a row the
\* sweep has locked.
DismissBesideSweep(id) ==
    /\ id \notin LockedIds
    /\ DismissPrediction(id)

SweepNext ==
    \/ \E u \in Users, e \in ExpiryChoices(now) :
          CreateUpTo(u, HealthTemplate, e, MaxSwept)
    \/ \E id \in SweptIds : DismissBesideSweep(id)
    \/ \E u \in {"u1", NoUser} : SweepSelect(u)
    \/ SweepUpdate
    \/ SweepCommit
    \/ SweepSessionClosed
    \/ Tick

SweepSpec == Init /\ [][SweepNext]_vars

----------------------------------------------------------------------------
\* Budget: the methods that keep spent_amount and status of one object.
\* Amounts are whole cents.  spent_amount starts at its default 0 or at
\* what earlier calls left, never below 0: remove_expense clamps it there.

\* The largest budget amount, the largest single expense and the largest
\* spent_amount followed.
MaxBudgetAmount == 5
MaxExpense == 3
MaxSpent == 10

\* A budget as it is first stored: active, with spent_amount <= amount.
NewBudget(amount, spent_amount) ==
    /\ budget = NoBudget
    /\ spent_amount <= amount
    /\ budget' = [amount |-> amount, spent_amount |-> spent_amount,
                  status |-> "active", op |-> "new", was |-> "none"]
    /\ UNCHANGED exceptBudget

\* A remove_expense that forgets to reactivate the budget.
RemoveExpenseKeepsStatus(amount) ==
    /\ budget # NoBudget
    /\ budget' = [budget EXCEPT !.spent_amount = Max(budget.spent_amount - amount, 0),
                                !.op = "remove_expense", !.was = budget.status]
    /\ UNCHANGED exceptBudget

\* Budget.add_expense
AddExpense(amount) ==
    /\ budget # NoBudget
    /\ budget.spent_amount + amount <= MaxSpent
    /\ LET spent == budget.spent_amount + amount
       IN  budget' = [budget EXCEPT
                        !.spent_amount = spent,
                        !.status = IF spent > budget.amount /\ budget.status = "active"
                                   THEN "exceeded" ELSE budget.status,
                        !.op = "add_expense", !.was = budget.status]
    /\ UNCHANGED exceptBudget

\* Budget.remove_expense
RemoveExpense(amount) ==
    /\ budget # NoBudget
    /\ LET spent == Max(budget.spent_amount - amount, 0)
       IN  budget' = [budget EXCEPT
                        !.spent_amount = spent,
                        !.status = IF ~(spent > budget.amount) /\ budget.status = "exceeded"
                                   THEN "active" ELSE budget.status,
                        !.op = "remove_expense", !.was = budget.status]
    /\ UNCHANGED exceptBudget

\* Budget.reset_spent_amount
ResetSpentAmount ==
    /\ budget # NoBudget
    /\ budget' = [budget EXCEPT !.spent_amount = 0, !.status = "active",
                                !.op = "reset_spent_amount", !.was = budget.status]
    /\ UNCHANGED exceptBudget

BudgetNext ==
    \/ \E amount \in 0 .. MaxBudgetAmount, spent_amount \in 0 .. MaxBudgetAmount :
          NewBudget(amount, spent_amount)
    \/ \E amount \in 1 .. MaxExpense : AddExpense(amount)
    \/ \E amount \in 1 .. MaxExpense : RemoveExpense(amount)
    \/ ResetSpentAmount

BudgetSpec == Init /\ [][BudgetNext]_vars

----------------------------------------------------------------------------
\* MemoryCache: a dict of items and the list access_order, oldest use first.
\* cache maps each cached key to its expires_at; values play no part.
\* recency is kept beside the code's state: it ranks the cached keys by the
\* time of their last set or hit, whatever access_order says.

CacheKeys == {"a", "b", "c"}
TtlChoices == {1, 3}

\* MemoryCache(max_size), and the last instant followed.
max_size == 2
MaxCacheTime == 4

\* list.remove(key), guarded by "if key in list": drops the first occurrence.
RECURSIVE RemoveFirst(_, _)
RemoveFirst(order, key) ==
    IF order = << >> THEN << >>
    ELSE IF Head(order) = key THEN Tail(order)
    ELSE <<Head(order)>> \o RemoveFirst(Tail(order), key)

RECURSIVE RemoveAll(_, _)
RemoveAll(order, keys) ==
    IF order = << >> THEN << >>
    ELSE IF Head(order) \in keys THEN RemoveAll(RemoveFirst(order, Head(order)), keys)
    ELSE <<Head(order)>> \o RemoveAll(Tail(order), keys)

Without(items, keys) == [k \in DOMAIN items \ keys |-> items[k]]

\* CacheItem.is_expired at time t
ExpiredKeys(items, t) == {k \in DOMAIN items : t > items[k]}

\* The ranks 1 .. n of the keys, in the order of their last use.
Ranked(rank) ==
    [k \in DOMAIN rank |-> 1 + Cardinality({x \in DOMAIN rank : rank[x] < rank[k]})]

\* The key has just been set or hit.
Used(rank, key) ==
    Ranked([k \in DOMAIN rank \cup {key} |->
               IF k = key THEN Cardinality(DOMAIN rank) + 2 ELSE rank[k]])

Forgotten(rank, keys) == Ranked(Without(rank, keys))

\* The least recently used of the ranked keys.
LeastRecent(rank) == {k \in DOMAIN rank : rank[k] = 1}

\* A get that forgets to move the key to the end of access_order.
GetKeepsOrder(key) ==
    \E t \in {cache_time, Min(cache_time + 1, MaxCacheTime)} :
        LET expired == ExpiredKeys(cache, cache_time)
            items == Without(cache, expired)
            order == RemoveAll(access_order, expired)
            rank == Forgotten(recency, expired)
        IN  /\ IF key \notin DOMAIN items
               THEN /\ cache' = items
                    /\ access_order' = order
                    /\ recency' = rank
               ELSE IF t > items[key]
               THEN /\ cache' = Without(items, {key})
                    /\ access_order' = RemoveFirst(order, key)
                    /\ recency' = Forgotten(rank, {key})
               ELSE /\ cache' = items
                    /\ access_order' = order
                    /\ recency' = Used(rank, key)
            /\ cache_time' = t
            /\ outcome' = [op |-> "get", key |-> key, evicted |-> {}, oldest |-> {},
                           hit |-> key \in DOMAIN items /\ ~(t > items[key])]
            /\ UNCHANGED exceptCache

\* MemoryCache.get: _cleanup_expired, then the item's own is_expired, read
\* a moment later, then the move to the end of access_order.
Get(key) ==
    \E t \in {cache_time, Min(cache_time + 1, MaxCacheTime)} :
        LET expired == ExpiredKeys(cache, cache_time)
            items == Without(cache, expired)
            order == RemoveAll(access_order, expired)
            rank == Forgotten(recency, expired)
        IN  /\ IF key \notin DOMAIN items
               THEN /\ cache' = items
                    /\ access_order' = order
                    /\ recency' = rank
               ELSE IF t > items[key]
               THEN /\ cache' = Without(items, {key})
                    /\ access_order' = RemoveFirst(order, key)
                    /\ recency' = Forgotten(rank, {key})
               ELSE /\ cache' = items
                    /\ access_order' = Append(RemoveFirst(order, key), key)
                    /\ recency' = Used(rank, key)
            /\ cache_time' = t
            /\ outcome' = [op |-> "get", key |-> key, evicted |-> {}, oldest |-> {},
                           hit |-> key \in DOMAIN items /\ ~(t > items[key])]
            /\ UNCHANGED exceptCache

\* MemoryCache.set: _cleanup_expired, _evict_lru when full and the key is
\* new, the new item, then the move to the end of access_order.
Set(key, ttl) ==
    LET expired == ExpiredKeys(cache, cache_time)
        items == Without(cache, expired)
        order == RemoveAll(access_order, expired)
        rank == Forgotten(recency, expired)
        full == Cardinality(DOMAIN items) >= max_size /\ key \notin DOMAIN items
        lru_key == IF full /\ order # << >> THEN {Head(order)} ELSE {}
        kept == Without(items, lru_key)
        rest == IF full /\ order # << >> THEN Tail(order) ELSE order
    IN  /\ cache' = [k \in DOMAIN kept \cup {key} |->
                        IF k = key THEN cache_time + ttl ELSE kept[k]]
        /\ access_order' = Append(RemoveFirst(rest, key), key)
        /\ recency' = Used(Forgotten(rank, lru_key), key)
        /\ outcome' = [op |-> "set", key |-> key, evicted |-> lru_key,
                       oldest |-> IF full THEN LeastRecent(rank) ELSE {},
                       hit |-> FALSE]
        /\ UNCHANGED <<cache_time, exceptCache>>

\* MemoryCache.delete
Delete(key) ==
    /\ IF key \in DOMAIN cache
       THEN /\ cache' = Without(cache, {key})
            /\ access_order' = RemoveFirst(access_order, key)
            /\ recency' = Forgotten(recency, {key})
       ELSE UNCHANGED <<cache, access_order, recency>>
    /\ outcome' = [op |-> "delete", key |-> key, evicted |-> {}, oldest |-> {},
                   hit |-> key \in DOMAIN cache]
    /\ UNCHANGED <<cache_time, exceptCache>>

\* MemoryCache.clear
Clear ==
    /\ cache' = << >>
    /\ access_order' = << >>
    /\ recency' = << >>
    /\ outcome' = [op |-> "clear", key |-> "", evicted |-> {}, oldest |-> {},
                   hit |-> FALSE]
    /\ UNCHANGED <<cache_time, exceptCache>>

\* Time passes between two calls.
CacheTick ==
    /\ cache_time < MaxCacheTime
    /\ cache_time' = cache_time + 1
    /\ outcome' = NoOp
    /\ UNCHANGED <<cache, access_order, recency, exceptCache>>

CacheNext ==
    \/ \E key \in CacheKeys, ttl \in TtlChoices : Set(key, ttl)
    \/ \E key \in CacheKeys : Get(key)
    \/ \E key \in CacheKeys : Delete(key)
    \/ Clear
    \/ CacheTick

CacheSpec == Init /\ [][CacheNext]_vars

----------------------------------------------------------------------------
\* Claims on the prediction lifecycle store.

FinalStatus == {"archived", "dismissed"}

LifecycleOps ==
    {"archive_prediction", "dismiss_prediction", "archive_expired",
     "api_archive", "api_dismiss"}

\* Every row of B that is archived or dismissed has the same status in C,
\* if it is still there.
StatusKept(B, C) ==
    \A r \in DOMAIN B :
        (r.id # Anon /\ r.status \in FinalStatus)
            => \A q \in DOMAIN C : q.id = r.id => q.status = r.status

OwnedBy(B, id, u) == \E r \in RowById(B, id) : r.user_id = u

\* C1: no archive_prediction, dismiss_prediction or archive_expired_predictions
\* call, through the repository or the endpoints, changes the status of a
\* prediction that is archived or dismissed; a dismiss of an archived prediction
\* is answered as a success.
C1_FinalStatusIsKept ==
    [][(last'.op \in LifecycleOps) =>
          /\ StatusKept(view, view')
          /\ (last'.op = "dismiss_prediction" /\ StatusOf(view, last'.id) = "archived")
                => last'.found
          /\ (last'.op = "api_dismiss" /\ StatusOf(view, last'.id) = "archived"
                /\ OwnedBy(view, last'.id, last'.user))
                => last'.code = 200]_vars

\* C2: no query for active predictions returns a prediction that is active
\* with expires_at in the past.
C2_NoStaleRowInActiveQueries ==
    (last.op \in {"get_active", "get_high_confidence", "get_latest_by_type"})
        => \A r \in DOMAIN last.result : ~IsStale(r, now)

\* C3: one archive_expired_predictions(owner) call archives exactly the rows
\* that are active with expires_at at or before now in its scope, returns
\* their number, leaves no such row behind and changes no other row.
C3_SweepArchivesEveryStaleRow ==
    [][(last'.op = "archive_expired") =>
          LET E == ExpiredRows(view, last'.user, now)
          IN  /\ view' = (view (-) E) (+) BagOfAll(LAMBDA r : SetStatus(r, "archived", now), E)
              /\ last'.count = BagCardinality(E)
              /\ ExpiredRows(view', last'.user, now) = EmptyBag]_vars

\* C4: a second archive_expired_predictions call right after a first one, with
\* the same owner, archives nothing and returns 0.
C4_SecondSweepArchivesNothing ==
    [][(last.op = "archive_expired" /\ last'.op = "archive_expired"
          /\ last'.user = last.user)
          => (last'.count = 0 /\ view' = view)]_vars

\* C5: a cleanup_old_predictions(days_old, batch_size) call deletes only rows
\* that are archived or dismissed and were created before now - days_old, at
\* most batch_size of them, and returns their number; it deletes no active row
\* and changes no row it keeps.
C5_CleanupDeletesOnlyOldFinalRows ==
    [][(last'.op = "cleanup") =>
          LET gone == view (-) view'
          IN  /\ view' \sqsubseteq view
              /\ BagCardinality(gone) = last'.count
              /\ last'.count <= last'.batch_size
              /\ \A r \in DOMAIN gone :
                    /\ r.status \in FinalStatus
                    /\ r.created_at < now - last'.days_old]_vars

\* C5, witness: a cleanup that deleted batch_size rows and left old archived
\* rows for the next call, next to a row that is still active.
C5_Witness ==
    /\ last.op = "cleanup"
    /\ last.count = last.batch_size
    /\ CleanupRows(view, now - last.days_old) # EmptyBag
    /\ \E r \in DOMAIN view : r.status = "active" /\ r.created_at < now - last.days_old

\* C6: the rows the DELETE of a /cleanup request removes all belong to the
\* user who sent the request.
C6_CleanupDeletesOnlyCallersRows ==
    (last.op = "api_cleanup") => \A r \in DOMAIN last.deleted : r.user_id = last.user

OnlyUpdatedAtMoved(B, C, id, t) ==
    \A r \in RowById(B, id) :
        \E q \in RowById(C, id) :
            /\ q.updated_at = t
            /\ [q EXCEPT !.updated_at = r.updated_at] = r
            /\ (B (-) SetToBag({r})) = (C (-) SetToBag({q}))

----------------------------------------------------------------------------
\* Claims on the health scorer.

\* C8: two evaluations over the same totals, count and savings rate return the
\* same result.
C8_SameInputsSameResult ==
    (evalA.done /\ evalB.done /\ hin.rateA = hin.rateB) => evalA = evalB

\* C9: the score is within 0..100, and with the totals and the count fixed a
\* higher savings rate never gives a lower score.
C9_ScoreBoundedAndMonotone ==
    /\ evalA.done => (~evalA.raised /\ evalA.score \in 0 .. 100)
    /\ evalB.done => (~evalB.raised /\ evalB.score \in 0 .. 100)
    /\ (evalA.done /\ evalB.done /\ hin.rateB > hin.rateA)
          => evalB.score >= evalA.score

\* C10: with zero income the computation raises no error and the score is at
\* most 50.
C10_ZeroIncomeScoreAtMost50 ==
    (evalA.done /\ hin.income = 0) => (~evalA.raised /\ evalA.score <= 50)

----------------------------------------------------------------------------
\* Claims on the anomaly detector.

\* C11: no transaction is both counted in a category baseline and checked
\* against that baseline; the historical window ends before the recent one
\* begins.
C11_WindowsDoNotOverlap ==
    anomalies.done =>
        /\ ExpensesOf(anomalies.historical) \cap ExpensesOf(anomalies.recent) = {}
        /\ \A h \in anomalies.historical : \A r \in anomalies.recent :
              h.transaction_date < r.transaction_date

\* The expense amounts of category c that the baseline of the last call was
\* built from.
BaselineAmounts(c) ==
    {t.amount : t \in {x \in ExpensesOf(ledger) :
        /\ x.category_name = c
        /\ x \in anomalies.historical}}

\* C12: every anomaly reported has a score within [0,1] and an amount above
\* 1.5 times the largest baseline amount of its category; a recent expense
\* equal to that largest amount, or of a category without baseline, is not
\* reported.
C12_AnomaliesAreAboveBaseline ==
    anomalies.done =>
        /\ \A a \in anomalies.result :
              /\ a.anomaly_score \in 0 .. 100
              /\ BaselineAmounts(a.category) # {}
              /\ \A m \in BaselineAmounts(a.category) : 2 * a.amount > 3 * m
        /\ \A t \in ExpensesOf(anomalies.recent) :
              (\/ BaselineAmounts(t.category_name) = {}
               \/ (\A m \in BaselineAmounts(t.category_name) : m <= t.amount)
                    /\ t.amount \in BaselineAmounts(t.category_name))
                 => \A a \in anomalies.result : a.transaction # t

\* C12, witness: a call that reported an anomaly and passed over a recent
\* expense of a category without baseline and one equal to its baseline max.
C12_Witness ==
    /\ anomalies.done
    /\ anomalies.result # {}
    /\ \E t \in ExpensesOf(anomalies.recent) : BaselineAmounts(t.category_name) = {}
    /\ \E t \in ExpensesOf(anomalies.recent) :
          /\ t.amount \in BaselineAmounts(t.category_name)
          /\ \A m \in BaselineAmounts(t.category_name) : m <= t.amount

----------------------------------------------------------------------------
\* Claims on pattern analysis.

\* The pairs of distinct categories with at least 3 co-occurrence days.
QualifiedPairs ==
    {P \in SUBSET CorrCategories :
        /\ Cardinality(P) = 2
        /\ \E c1, c2 \in P : c1 # c2 /\ CoOccurrence(analysed, c1, c2) >= MinCoOccurrence}

CoOccurrenceOf(P) ==
    LET c1 == CHOOSE c \in P : TRUE
        c2 == CHOOSE c \in P : c # c1
    IN  CoOccurrence(analysed, c1, c2)

ReportedPairs == {{correlations.result[k].categories[1], correlations.result[k].categories[2]} :
                    k \in DOMAIN correlations.result}

\* C13: the correlations reported are qualified pairs, at most 3 and all of
\* them when there are at most 3, in descending order of co-occurrence, and no
\* qualified pair left out has more co-occurrence days than a reported one.
C13_TopCorrelationsByCoOccurrence ==
    correlations.done =>
        /\ ReportedPairs \subseteq QualifiedPairs
        /\ Len(correlations.result) = Min(TopCorrelations, Cardinality(QualifiedPairs))
        /\ Cardinality(ReportedPairs) = Len(correlations.result)
        /\ \A j, k \in DOMAIN correlations.result :
              j < k => correlations.result[j].correlation >= correlations.result[k].correlation
        /\ \A P \in QualifiedPairs \ ReportedPairs : \A Q \in ReportedPairs :
              CoOccurrenceOf(P) <= CoOccurrenceOf(Q)

----------------------------------------------------------------------------
\* Claims on the recommendation engine.

\* C14: generate_recommendations returns at most max_count recommendations,
\* in descending order of priority rank and then of ai_confidence, and no
\* candidate it cut off ranks above one it returned.
C14_TopRecommendationsByRank ==
    (recommendations.done /\ recommendations.call = "generate") =>
        /\ ~recommendations.raised
        /\ Len(recommendations.result) <= recommendations.max
        /\ \A j, k \in DOMAIN recommendations.result :
              j < k => ~RanksAbove(recommendations.result[k], recommendations.result[j])
        /\ \A c \in recommendations.candidates :
              (\A k \in DOMAIN recommendations.result : recommendations.result[k] # c)
                 => \A k \in DOMAIN recommendations.result :
                       ~RanksAbove(c, recommendations.result[k])

\* The categories that make up exactly 40% of the expenses of the ledger.
FortyPercentCategories ==
    {c \in Categories :
        /\ TotalOf(ledger, "expense") > 0
        /\ 100 * SumAmounts({t \in ExpensesOf(ledger) : t.category_name = c})
              = 40 * TotalOf(ledger, "expense")}

\* C15: a category that makes up 40% of the expenses of the three months
\* analysed gets a spending recommendation of priority "high" whose potential
\* impact is 15% of the category's spend per month.
C15_FortyPercentCategoryIsHigh ==
    (recommendations.done /\ recommendations.call = "spending") =>
        \A c \in FortyPercentCategories :
            \E r \in recommendations.candidates :
                /\ r.kind = "spending"
                /\ r.subject = c
                /\ r.priority = "high"
                /\ r.potential_impact.num * 100 * RecommendationMonths
                      = r.potential_impact.den * 15
                          * SumAmounts({t \in ExpensesOf(ledger) : t.category_name = c})

\* C16: the generation of goal recommendations raises no error, whatever the
\* goals and the transactions.
C16_GoalRecommendationsNeverRaise ==
    (recommendations.done /\ recommendations.call = "goal") => ~recommendations.raised

\* C17: for every budget at or above its alert threshold the candidates of
\* generate_recommendations hold a budget recommendation, "urgent" when the
\* budget is exceeded and "high" otherwise.
C17_BudgetsAtThresholdAreRecommended ==
    (recommendations.done /\ recommendations.call \in {"generate", "budget"}) =>
        \A b \in budgets :
            (100 * b.spent_amount >= b.alert_threshold * b.amount) =>
                \E r \in recommendations.candidates :
                    /\ r.kind = "budget"
                    /\ r.subject = b
                    /\ r.priority = IF b.spent_amount > b.amount THEN "urgent" ELSE "high"

----------------------------------------------------------------------------
\* Claims on the scenario simulator.

ZeroAdjustments(s) ==
    /\ s.income_adjustment = 0
    /\ s.expense_adjustment = 0
    /\ s.savings_increase = 0

\* C18: a simulation whose income, expense and savings adjustments are all 0
\* gives a scenario trajectory equal month by month to the baseline
\* trajectory, with balance_difference = 0 and percentage_improvement = 0.
C18_ZeroAdjustmentsEqualBaseline ==
    (simulation.done /\ ValidScenario(simulation.scenario)
       /\ ZeroAdjustments(simulation.scenario))
    => /\ simulation.result.returned
       /\ simulation.result.timeline_data = simulation.current.timeline
       /\ simulation.result.comparison_to_current.balance_difference = 0
       /\ simulation.result.comparison_to_current.percentage_improvement = 0

\* A scenario whose adjustments make a projected monthly income negative.
NegativeProjectedIncome(s, historical_data) ==
    historical_data.avg_monthly_income * Multiplier(s.income_adjustment) < 0

\* C19: an invalid scenario, one with a non-positive horizon or with
\* adjustment percentages that make the projected income negative, is
\* reported to the caller as an error and no simulation result is computed
\* for it.
C19_InvalidScenarioIsRejected ==
    (simulation.done
       /\ (\/ simulation.scenario.time_horizon_months <= 0
           \/ NegativeProjectedIncome(simulation.scenario,
                                      HistoricalAverages({t \in ledger :
                                          /\ t.transaction_date >= Today - SimulationDays
                                          /\ t.transaction_date <= Today}))))
    => /\ simulation.raised
       /\ simulation.error = "ValidationError"
       /\ ~simulation.computed
       /\ ~simulation.result.returned

----------------------------------------------------------------------------
\* Claims on the prediction generator.

\* The requested types that generate_predictions would make when asked for
\* them alone: the data is enough and their own INSERT does not fail.
Generable(i) ==
    /\ EnoughData(generated.request.prediction_types[i],
                  SummaryFor(generated.request.prediction_types[i], ledger))
    /\ i \notin generated.faults

\* The number of requested types up to the i-th that came out as predictions.
MadeUpTo(i) == Cardinality({k \in 1 .. i : generated.outcomes[k] = "created"})

\* C20: in generate_predictions a requested type with too few data points or
\* whose generation fails is skipped without an error reaching the caller,
\* and every other requested type is still generated, stored and returned.
C20_FailedTypeIsSkippedAlone ==
    generated.done
    => /\ ~generated.raised
       /\ \A i \in 1 .. Len(generated.request.prediction_types) :
             IF Generable(i)
             THEN /\ generated.outcomes[i] = "created"
                  /\ generated.result[MadeUpTo(i)].type = generated.request.prediction_types[i]
                  /\ BagIn(generated.result[MadeUpTo(i)], db)
             ELSE generated.outcomes[i] # "created"

----------------------------------------------------------------------------
\* Claims on the seasonal detector.

\* Two full years in which the category costs R$200 in every month but July
\* and R$900 in July.
JulySpikeHistory ==
    /\ Len(history) >= SeasonalMonths
    /\ \A k \in SeasonalWindow(history) :
          history[k] = IF MonthOf(k) = July THEN 900 ELSE 200

\* The 1 July to come: of this year before July, of the next year from July on.
NextFirstOfJuly ==
    [year |-> IF MonthOf(Len(history)) < July THEN YearOf(Len(history))
              ELSE YearOf(Len(history)) + 1,
     month |-> July, day |-> 1]

\* C21: for a category whose monthly spend is R$200 in every month except
\* July, where it is R$900 in two consecutive years, the seasonal detector
\* reports the category with July as its peak month, a variation of about
\* 350% (here: between 340% and 360%) and next_peak_date on the next 1 July.
C21_JulySpikeIsReported ==
    (patterns.done /\ JulySpikeHistory)
    => \E p \in patterns.result :
          /\ p.category = SeasonalCategory
          /\ p.peak_months = {"Julho"}
          /\ p.average_variation >= 34000
          /\ p.average_variation <= 36000
          /\ p.next_peak_date = {NextFirstOfJuly}

----------------------------------------------------------------------------
\* Claims on the cleanup loop.

\* The archived and dismissed predictions of B created before the cutoff.
OldFinalRows(B) == CleanupRows(B, now - purge.days_old)

\* C22: calling cleanup_old_predictions with batch_size of at least 1 again
\* and again until it returns 0 ends after finitely many calls, and when it
\* has ended no archived or dismissed prediction created before the cutoff
\* is left in the store.
C22_PurgeLoopEndsWithStoreClean ==
    /\ (purge.phase = "looping") ~> (purge.phase = "ended")
    /\ [](purge.phase = "ended" => OldFinalRows(db) = EmptyBag)

----------------------------------------------------------------------------
\* Claims on authentication.

\* C23: a login with the correct email and password of an inactive account
\* is refused with HTTP 403 and an "account inactive" message, distinct from
\* the 401 given for wrong credentials, and no access token is issued.
C23_InactiveLoginIsForbidden ==
    (response.op = "login" /\ response.email \in Users
       /\ response.password_valid /\ ~response.was_active)
    => /\ response.status = 403
       /\ response.detail = "inactive"
       /\ ~response.access_token

\* C27: for an account with 2FA enabled, an access token is issued only
\* after login has verified the password of the account and then
\* verify_2fa_and_login has accepted a valid TOTP code.
C27_SecondFactorTokenNeedsPassword ==
    \A t \in tokens :
        t.second_factor => (t.password_verified /\ t.totp_verified)

----------------------------------------------------------------------------
\* Claims on rate limiting.

\* The login requests of a client that the endpoint let through within the
\* minute that ends now.
AdmittedThisMinute(client_id) ==
    Len(CleanupOldRequests(admitted[client_id], MinuteWindow, clock))

\* C24: login requests are rate limited per client: no client ever has more
\* than the requests_per_minute limit of requests admitted in one window.
C24_LoginIsRateLimited ==
    \A client_id \in Clients :
        AdmittedThisMinute(client_id) <= config.requests_per_minute

\* C28: a request that is_allowed rejects consumes no quota: the client's
\* minute, hour and burst logs are as before the call, apart from the
\* removal of expired entries.
C28_RejectedRequestConsumesNothing ==
    (verdict.op = "is_allowed" /\ ~verdict.is_allowed) =>
        /\ minute_requests[verdict.client_id]
              = CleanupOldRequests(verdict.minute_before, MinuteWindow, verdict.time)
        /\ hour_requests[verdict.client_id]
              = CleanupOldRequests(verdict.hour_before, HourWindow, verdict.time)
        /\ burst_requests[verdict.client_id]
              = CleanupOldRequests(verdict.burst_before, BurstWindow, verdict.time)

----------------------------------------------------------------------------
\* Claims on the expiry sweep running beside other requests.

\* C25: when archive_expired_predictions runs concurrently with
\* dismiss_prediction, a prediction that has been dismissed stays dismissed
\* in every interleaving: the sweep never turns a dismissed status into
\* archived.
C25_DismissedStaysDismissed ==
    [][\A id \in SweptIds :
          StatusOf(db, id) = "dismissed" => StatusOf(db', id) = "dismissed"]_vars

----------------------------------------------------------------------------
\* Claims on the ownership check of the /predictions endpoints.

\* The prediction belongs to somebody else than u.
OwnedByAnother(u, id) == \E r \in RowById(db, id) : r.user_id # u

\* C26: a user can never archive or dismiss another user's prediction
\* through the endpoints: the request is refused with 403, or with 404 for
\* an unknown id, and the table is left as it was.
C26_OnlyTheOwnerSetsTheStatus ==
    [][\A u \in Users, id \in PredictionIds :
          ((ApiArchivePrediction(u, id) \/ ApiDismissPrediction(u, id))
             /\ (OwnedByAnother(u, id) \/ RowById(db, id) = {}))
          => /\ db' = db
             /\ view' = view
             /\ last'.code = IF RowById(db, id) = {} THEN 404 ELSE 403]_vars

\* C26, witness: u2 was refused the dismissal of u1's active prediction, and
\* the prediction is still active.
C26_Witness ==
    /\ last.op = "api_dismiss"
    /\ last.code = 403
    /\ last.was = "active"
    /\ OwnedByAnother(last.user, last.id)
    /\ StatusOf(db, last.id) = "active"

----------------------------------------------------------------------------
\* Claims on the budget's status.

\* C29: for a budget that starts active with spent_amount <= amount, after
\* any sequence of add_expense, remove_expense and reset_spent_amount with
\* positive amounts the status is exceeded exactly when spent_amount > amount.
C29_ExceededIffOverspent ==
    budget # NoBudget =>
        /\ budget.status \in {"active", "exceeded"}
        /\ budget.status = "exceeded" <=> IsExceeded(budget)

\* C29, witness: a remove_expense brought an exceeded budget back under its
\* amount, without emptying it.
C29_Witness ==
    /\ budget # NoBudget
    /\ budget.op = "remove_expense"
    /\ budget.was = "exceeded"
    /\ budget.spent_amount > 0
    /\ budget.spent_amount <= budget.amount

----------------------------------------------------------------------------
\* Claims on the memory cache.

\* The keys of access_order, and whether each is listed once.
ListedKeys == {access_order[i] : i \in DOMAIN access_order}
ListedOnce == \A i, j \in DOMAIN access_order : i # j => access_order[i] # access_order[j]

\* C30: with max_size >= 1, after any sequence of set, get, delete and clear
\* the cache holds at most max_size entries and access_order lists exactly
\* the cached keys, each once; so the entry a full cache evicts is the
\* least recently used one.
C30_CacheIsBoundedAndEvictsTheOldest ==
    /\ Cardinality(DOMAIN cache) <= max_size
    /\ ListedKeys = DOMAIN cache
    /\ ListedOnce
    /\ outcome.op = "set" => outcome.evicted = outcome.oldest

\* C30, witness: a set on a full cache evicted a key, after a hit had made
\* the key that was set first the more recent one.
C30_Witness ==
    /\ outcome.op = "set"
    /\ outcome.evicted = {"b"}
    /\ "a" \in DOMAIN cache
    /\ Cardinality(DOMAIN cache) = max_size
    /\ ListedKeys = DOMAIN cache

====
